---- MODULE Spec2Model ----
(***************************************************************************)
(* A model of the data-access runtime of vegabase (pyreact_start.db):      *)
(* typed queries, the hook chain around every execution, the four          *)
(* row-cardinality contracts and the connection / transaction scopes.      *)
(***************************************************************************)
EXTENDS Integers, Sequences, FiniteSets, TLC

\* Number of distinct rows the users table can hold.
MaxRows == 3
\* Longest hook chain a database handle carries.
MaxHooks == 2

RowIds == 1..MaxRows
Tasks == {"t1", "t2"}

VARIABLES mode, hooks, committed, scopeKind, pending, call, exitInfo,
          live, declared, schemaOp, chainOf, cli

vars == <<mode, hooks, committed, scopeKind, pending, call, exitInfo,
          live, declared, schemaOp, chainOf, cli>>

----------------------------------------------------------------------------
(* Errors.  An exception is a value: its type and, for an error built by a *)
(* hook around another one, the type of the error it wraps.                *)

NoError == [type |-> "none", cause |-> ""]
Err(type) == [type |-> type, cause |-> ""]

NotFoundError == Err("NotFoundError")
TooManyRowsError == Err("TooManyRowsError")
ValidationError == Err("ValidationError")
\* What the engine raises for a statement it cannot run (no such table).
EngineError == Err("OperationalError")
\* What a failing user hook raises.
HookError == Err("HookError")
\* What `raise error` raises when error is not an exception.
TypeError == Err("TypeError")
\* The value None, where an error was expected.
NoneValue == [type |-> "None", cause |-> ""]
\* isinstance(e, BaseException)
IsException(e) == e.type \notin {"none", "None"}
\* What the await of a cancelled task raises; not an Exception subclass.
CancelledError == Err("CancelledError")
\* What a transaction body raises on its own (tests: ValueError).
BodyError == Err("ValueError")

----------------------------------------------------------------------------
(* The table and the rows the engine returns.                              *)

NULL == "NULL"
Columns == {"id", "name", "email"}

\* The rows the users table can hold: every third row has a NULL name.
CellOf(i, c) ==
    IF c = "id" THEN i
    ELSE IF c = "name" THEN (IF i % 3 = 0 THEN NULL ELSE "n") ELSE "e"

\* dict(row._mapping) of row i for a statement selecting cols
RowDict(i, cols) == [c \in cols |-> CellOf(i, c)]

SelUsers == [table |-> "users", where |-> "all", cols |-> Columns]
SelUser1 == [table |-> "users", where |-> "id1", cols |-> Columns]
SelIdName == [table |-> "users", where |-> "all", cols |-> {"id", "name"}]
SelNonexistent == [table |-> "nonexistent", where |-> "all", cols |-> {"id"}]
\* select(users).where(users.c.id == bindparam("uid"))
SelBind == [table |-> "users", where |-> "bind", cols |-> Columns]

\* params: None, {"uid": 1} or {"uid": 2}
NoParams == "None"
Params == {NoParams, "uid1", "uid2"}
Uid(params) == IF params = "uid1" THEN 1 ELSE IF params = "uid2" THEN 2 ELSE 0

Matches(stmt, params, i) ==
    \/ stmt.where = "all"
    \/ stmt.where = "id1" /\ i = 1
    \/ stmt.where = "bind" /\ i = Uid(params)

RECURSIVE RowsFrom(_, _, _, _)
RowsFrom(stmt, params, ids, i) ==
    IF i > MaxRows THEN <<>>
    ELSE IF i \in ids /\ Matches(stmt, params, i)
         THEN <<RowDict(i, stmt.cols)>> \o RowsFrom(stmt, params, ids, i + 1)
         ELSE RowsFrom(stmt, params, ids, i + 1)

\* self._conn.execute(ctx.statement, ctx.params) against the rows the
\* session sees; the engine refuses a statement on a table that does not
\* exist and a bound parameter without a value
ConnExecute(stmt, params, ids) ==
    IF stmt.table # "users" \/ (stmt.where = "bind" /\ params = NoParams)
    THEN [ok |-> FALSE, rows |-> <<>>, error |-> EngineError]
    ELSE [ok |-> TRUE, rows |-> RowsFrom(stmt, params, ids, 1), error |-> NoError]

----------------------------------------------------------------------------
(* Record schemas and typed queries.                                       *)

Fields(model) ==
    IF model = "User" THEN {"id", "name", "email"} ELSE {"id", "name"}

TypedQuery(model, statement) == [model |-> model, statement |-> statement]

query(model, statement) == TypedQuery(model, statement)

Queries ==
    { query("User", SelUsers), query("User", SelUser1),
      query("User", SelNonexistent), query("UserSummary", SelUsers),
      query("User", SelIdName) }

\* a model that forbids columns it does not declare
ModelValid_no_extra(model, row) ==
    /\ Fields(model) = DOMAIN row
    /\ row["name"] # NULL

\* query.model.model_validate(row_dict): every declared field present and a str name
ModelValid(model, row) ==
    /\ Fields(model) \subseteq DOMAIN row
    /\ row["name"] # NULL

model_validate(model, row) == [f \in Fields(model) |-> row[f]]

\* query.model.model_construct(**row_dict): no checks, declared fields only
model_construct(model, row) == [f \in Fields(model) \cap DOMAIN row |-> row[f]]

QueryContext(statement, model_name, params, skip_validation) ==
    [statement |-> statement, model_name |-> model_name, params |-> params,
     skip_validation |-> skip_validation]

----------------------------------------------------------------------------
(* Hooks.  A hook has three capabilities: before_execute(ctx),             *)
(* after_execute(ctx, rows) -> rows and on_error(ctx, error) -> error.     *)
(* The kinds below are the base class and user subclasses of it.           *)

HookKinds ==
    {"Hook", "TailHook", "FirstHook", "BeforeFailHook", "AfterFailHook",
     "NoneHook"}

\* Whether this kind's before_execute raises.
BeforeRaises(kind) == kind = "BeforeFailHook"

\* The kinds whose before_execute rewrites the context it is given.
RewriteKinds == {"WhereHook", "BindHook", "ParamsHook", "ModelNameHook"}

\* before_execute: the base class leaves the context alone.  WhereHook
\* narrows the statement to id = 1, BindHook replaces its condition by
\* id = :uid and sets params to {"uid": 2}, ParamsHook sets params to
\* {"uid": 1}, ModelNameHook renames the model in the context.
before_execute(kind, ctx) ==
    IF kind = "WhereHook"
    THEN [ctx EXCEPT !.statement = [@ EXCEPT !.where = "id1"]]
    ELSE IF kind = "BindHook"
    THEN [ctx EXCEPT !.statement = [@ EXCEPT !.where = "bind"],
                     !.params = "uid2"]
    ELSE IF kind = "ParamsHook" THEN [ctx EXCEPT !.params = "uid1"]
    ELSE IF kind = "ModelNameHook" THEN [ctx EXCEPT !.model_name = "Renamed"]
    ELSE ctx

\* Whether this kind's after_execute raises.
AfterRaises(kind) == kind = "AfterFailHook"

\* after_execute: the base class returns the rows it was given; TailHook
\* drops the first row, FirstHook keeps only the first row.
after_execute(kind, ctx, rows) ==
    IF kind = "TailHook" THEN (IF Len(rows) = 0 THEN rows ELSE Tail(rows))
    ELSE IF kind = "FirstHook" THEN (IF Len(rows) = 0 THEN rows ELSE <<rows[1]>>)
    ELSE rows

\* on_error: the base class returns the error it was given; TailHook wraps
\* it in a new error, FirstHook replaces it by a fixed one, NoneHook has no
\* return statement and so returns None.
on_error(kind, ctx, error) ==
    IF kind = "TailHook" THEN [type |-> "WrappedError", cause |-> error.type]
    ELSE IF kind = "FirstHook" THEN Err("RemappedError")
    ELSE IF kind = "NoneHook" THEN NoneValue
    ELSE error

\* One entry of the record of hook and engine calls made during one query.
Event(op, hook, rows, out, err, errOut) ==
    [op |-> op, hook |-> hook, rows |-> rows, out |-> out,
     err |-> err, errOut |-> errOut]

\* HookChain.run_before: every hook's before_execute, in chain order,
\* until one raises.
RECURSIVE RunBeforeFrom(_, _, _, _)
RunBeforeFrom(chain, i, ctx, log) ==
    IF i > Len(chain) THEN [ctx |-> ctx, error |-> NoError, log |-> log]
    ELSE LET ev == Event("before", i, <<>>, <<>>, NoError, NoError)
         IN  IF BeforeRaises(chain[i])
             THEN [ctx |-> ctx, error |-> HookError, log |-> Append(log, ev)]
             ELSE RunBeforeFrom(chain, i + 1, before_execute(chain[i], ctx),
                                Append(log, ev))

run_before(chain, ctx) == RunBeforeFrom(chain, 1, ctx, <<>>)

\* HookChain.run_after: every hook's after_execute, in chain order, each
\* on the rows the previous one returned.
RECURSIVE RunAfterFrom(_, _, _, _, _)
RunAfterFrom(chain, i, ctx, rows, log) ==
    IF i > Len(chain) THEN [rows |-> rows, error |-> NoError, log |-> log]
    ELSE IF AfterRaises(chain[i])
         THEN [rows |-> rows, error |-> HookError,
               log |-> Append(log, Event("after", i, rows, <<>>, NoError, NoError))]
         ELSE LET out == after_execute(chain[i], ctx, rows)
              IN  RunAfterFrom(chain, i + 1, ctx, out,
                     Append(log, Event("after", i, rows, out, NoError, NoError)))

run_after(chain, ctx, rows) == RunAfterFrom(chain, 1, ctx, rows, <<>>)

\* HookChain.run_on_error: every hook's on_error, in chain order, each on
\* the error the previous one returned.
RECURSIVE RunOnErrorFrom(_, _, _, _, _)
RunOnErrorFrom(chain, i, ctx, error, log) ==
    IF i > Len(chain) THEN [error |-> error, log |-> log]
    ELSE LET out == on_error(chain[i], ctx, error)
         IN  RunOnErrorFrom(chain, i + 1, ctx, out,
                Append(log, Event("on_error", i, <<>>, <<>>, error, out)))

run_on_error(chain, ctx, error) == RunOnErrorFrom(chain, 1, ctx, error, <<>>)

----------------------------------------------------------------------------
(* AsyncTypedConnection._execute.  The coroutine suspends once, at         *)
(* `await self._conn.execute(...)`: ExecuteBegin is the part that runs up  *)
(* to the await, ExecuteFinish the part that runs when the engine replies. *)

\* for row_dict in rows: model_construct / model_validate, in order
RECURSIVE ValidateFrom(_, _, _, _)
ValidateFrom(model, rows, skip_validation, i) ==
    IF i > Len(rows) THEN <<>>
    ELSE <<(IF skip_validation THEN model_construct(model, rows[i])
            ELSE model_validate(model, rows[i]))>>
         \o ValidateFrom(model, rows, skip_validation, i + 1)

\* a validation loop that validates whatever the flag says
ValidationFails_ignores_skip(model, rows, skip_validation) ==
    \E i \in 1..Len(rows) : ~ModelValid(model, rows[i])

\* a validation loop that checks the first row only
ValidationFails_first_row(model, rows, skip_validation) ==
    /\ ~skip_validation
    /\ Len(rows) >= 1
    /\ ~ModelValid(model, rows[1])

\* Whether the validation loop raises ValidationError.
ValidationFails(model, rows, skip_validation) ==
    /\ ~skip_validation
    /\ \E i \in 1..Len(rows) : ~ModelValid(model, rows[i])

\* the except clause raising the caught exception, not the hooks' answer
ExecuteRaise_caught(chain, ctx, e, log, after) ==
    LET r == run_on_error(chain, ctx, e)
    IN  [ok |-> FALSE, validated |-> <<>>, orig |-> e, error |-> e,
         after |-> after, log |-> log \o r.log]

\* the except clause returning an empty list when the hooks answer None
ExecuteRaise_swallow(chain, ctx, e, log, after) ==
    LET r == run_on_error(chain, ctx, e)
    IN  [ok |-> ~IsException(r.error), validated |-> <<>>, orig |-> e,
         error |-> (IF IsException(r.error) THEN r.error ELSE NoError),
         after |-> after, log |-> log \o r.log]

\* the except clause raising a wrapper around the hooks' answer
ExecuteRaise_wrapped(chain, ctx, e, log, after) ==
    LET r == run_on_error(chain, ctx, e)
    IN  [ok |-> FALSE, validated |-> <<>>, orig |-> e,
         error |-> [type |-> "DatabaseError", cause |-> r.error.type],
         after |-> after, log |-> log \o r.log]

\* an except clause that re-raises without calling the hooks
ExecuteRaise_no_hooks(chain, ctx, e, log, after) ==
    [ok |-> FALSE, validated |-> <<>>, orig |-> e, error |-> e,
     after |-> after, log |-> log]

\* The except clause: error = self._hooks.run_on_error(ctx, e);
\* raise error from None.  The raise statement raises its operand when that
\* is an exception and TypeError when it is anything else.
ExecuteRaise(chain, ctx, e, log, after) ==
    LET r == run_on_error(chain, ctx, e)
    IN  [ok |-> FALSE, validated |-> <<>>, orig |-> e,
         error |-> (IF IsException(r.error) THEN r.error ELSE TypeError),
         after |-> after, log |-> log \o r.log]

\* an _execute that gives up control inside the before stage: it awaits
\* after the first hook's before_execute
ExecuteBegin_suspends_in_chain(chain, q, params, skip_validation) ==
    LET ctx == QueryContext(q.statement, q.model, params, skip_validation)
        first == IF Len(chain) = 0 THEN <<>> ELSE <<chain[1]>>
        b == RunBeforeFrom(first, 1, ctx, <<>>)
    IN  IF b.error # NoError
        THEN [raised |-> TRUE, ctx |-> b.ctx,
              exec |-> ExecuteRaise(chain, b.ctx, b.error, b.log, <<>>)]
        ELSE [raised |-> FALSE, ctx |-> b.ctx,
              exec |-> [ok |-> TRUE, validated |-> <<>>, orig |-> NoError,
                        error |-> NoError, after |-> <<>>, log |-> b.log]]

\* _execute with run_before left out
ExecuteBegin_no_before(chain, q, params, skip_validation) ==
    [raised |-> FALSE,
     ctx |-> QueryContext(q.statement, q.model, params, skip_validation),
     exec |-> [ok |-> TRUE, validated |-> <<>>, orig |-> NoError,
               error |-> NoError, after |-> <<>>, log |-> <<>>]]

\* _execute with run_before outside the try block
ExecuteBegin_no_try(chain, q, params, skip_validation) ==
    LET ctx == QueryContext(q.statement, q.model, params, skip_validation)
        b == run_before(chain, ctx)
    IN  [raised |-> b.error # NoError, ctx |-> b.ctx,
         exec |-> [ok |-> b.error = NoError, validated |-> <<>>,
                   orig |-> b.error, error |-> b.error, after |-> <<>>,
                   log |-> b.log]]

\* an _execute that goes on to the statement when a before hook raised
ExecuteBegin_ignores_raise(chain, q, params, skip_validation) ==
    LET ctx == QueryContext(q.statement, q.model, params, skip_validation)
        b == run_before(chain, ctx)
    IN  [raised |-> FALSE, ctx |-> b.ctx,
         exec |-> [ok |-> TRUE, validated |-> <<>>, orig |-> NoError,
                   error |-> NoError, after |-> <<>>, log |-> b.log]]

\* an _execute that hands the hooks a copy of the context and executes
\* what the query and the caller gave
ExecuteBegin_executes_query(chain, q, params, skip_validation) ==
    LET ctx == QueryContext(q.statement, q.model, params, skip_validation)
        b == run_before(chain, ctx)
    IN  IF b.error # NoError
        THEN [raised |-> TRUE, ctx |-> ctx,
              exec |-> ExecuteRaise(chain, ctx, b.error, b.log, <<>>)]
        ELSE [raised |-> FALSE, ctx |-> ctx,
              exec |-> [ok |-> TRUE, validated |-> <<>>, orig |-> NoError,
                        error |-> NoError, after |-> <<>>, log |-> b.log]]

\* ctx = QueryContext(...); self._hooks.run_before(ctx)
ExecuteBegin(chain, q, params, skip_validation) ==
    LET ctx == QueryContext(q.statement, q.model, params, skip_validation)
        b == run_before(chain, ctx)
    IN  IF b.error # NoError
        THEN [raised |-> TRUE, ctx |-> b.ctx,
              exec |-> ExecuteRaise(chain, b.ctx, b.error, b.log, <<>>)]
        ELSE [raised |-> FALSE, ctx |-> b.ctx,
              exec |-> [ok |-> TRUE, validated |-> <<>>, orig |-> NoError,
                        error |-> NoError, after |-> <<>>, log |-> b.log]]

\* _execute calling run_after and dropping what it returns
ExecuteFinish_raw_rows(chain, q, ctx, skip_validation, log, reply) ==
    LET log1 == Append(log, Event("execute", 0, <<>>, reply.rows, NoError, reply.error))
    IN  IF ~reply.ok THEN ExecuteRaise(chain, ctx, reply.error, log1, <<>>)
        ELSE LET a == run_after(chain, ctx, reply.rows)
                 log2 == log1 \o a.log
             IN  IF a.error # NoError
                 THEN ExecuteRaise(chain, ctx, a.error, log2, <<>>)
                 ELSE IF ValidationFails(q.model, reply.rows, skip_validation)
                 THEN ExecuteRaise(chain, ctx, ValidationError, log2, reply.rows)
                 ELSE [ok |-> TRUE,
                       validated |-> ValidateFrom(q.model, reply.rows, skip_validation, 1),
                       orig |-> NoError, error |-> NoError, after |-> reply.rows,
                       log |-> log2]

\* an _execute that counts the rows before it validates them
ExecuteFinish_counts_first(chain, q, ctx, skip_validation, log, reply) ==
    LET log1 == Append(log, Event("execute", 0, <<>>, reply.rows, NoError, reply.error))
    IN  IF ~reply.ok THEN ExecuteRaise(chain, ctx, reply.error, log1, <<>>)
        ELSE LET a == run_after(chain, ctx, reply.rows)
                 log2 == log1 \o a.log
             IN  IF a.error # NoError
                 THEN ExecuteRaise(chain, ctx, a.error, log2, <<>>)
                 ELSE IF Len(a.rows) >= 2
                 THEN ExecuteRaise(chain, ctx, TooManyRowsError, log2, a.rows)
                 ELSE IF ValidationFails(q.model, a.rows, skip_validation)
                 THEN ExecuteRaise(chain, ctx, ValidationError, log2, a.rows)
                 ELSE [ok |-> TRUE,
                       validated |-> ValidateFrom(q.model, a.rows, skip_validation, 1),
                       orig |-> NoError, error |-> NoError, after |-> a.rows,
                       log |-> log2]

\* rows = [dict(row._mapping) ...]; rows = run_after(ctx, rows); validate
ExecuteFinish(chain, q, ctx, skip_validation, log, reply) ==
    LET log1 == Append(log, Event("execute", 0, <<>>, reply.rows, NoError, reply.error))
    IN  IF ~reply.ok THEN ExecuteRaise(chain, ctx, reply.error, log1, <<>>)
        ELSE LET a == run_after(chain, ctx, reply.rows)
                 log2 == log1 \o a.log
             IN  IF a.error # NoError
                 THEN ExecuteRaise(chain, ctx, a.error, log2, <<>>)
                 ELSE IF ValidationFails(q.model, a.rows, skip_validation)
                 THEN ExecuteRaise(chain, ctx, ValidationError, log2, a.rows)
                 ELSE [ok |-> TRUE,
                       validated |-> ValidateFrom(q.model, a.rows, skip_validation, 1),
                       orig |-> NoError, error |-> NoError, after |-> a.rows,
                       log |-> log2]

----------------------------------------------------------------------------
(* The four cardinality methods, applied to what _execute produced.        *)

Raise(error) == [kind |-> "raise", recs |-> <<>>, error |-> error]
Return(kind, recs) == [kind |-> kind, recs |-> recs, error |-> NoError]
NoResult == [kind |-> "pending", recs |-> <<>>, error |-> NoError]

\* one without its upper check: the first row of however many
one_first(exec) ==
    IF ~exec.ok THEN Raise(exec.error)
    ELSE IF Len(exec.validated) = 0 THEN Raise(NotFoundError)
    ELSE Return("record", <<exec.validated[1]>>)

\* maybe_one that treats no row as an error, like one
maybe_one_strict(exec) ==
    IF ~exec.ok THEN Raise(exec.error)
    ELSE IF Len(exec.validated) > 1 THEN Raise(TooManyRowsError)
    ELSE IF Len(exec.validated) = 0 THEN Raise(NotFoundError)
    ELSE Return("record", <<exec.validated[1]>>)

\* maybe_one without its upper check: the first row of however many
maybe_one_first(exec) ==
    IF ~exec.ok THEN Raise(exec.error)
    ELSE IF Len(exec.validated) = 0 THEN Return("none", <<>>)
    ELSE Return("record", <<exec.validated[1]>>)

\* many without its lower check
many_unchecked(exec) ==
    IF ~exec.ok THEN Raise(exec.error)
    ELSE Return("list", exec.validated)

\* any with the lower check of many
any_checked(exec) ==
    IF ~exec.ok THEN Raise(exec.error)
    ELSE IF Len(exec.validated) = 0 THEN Raise(NotFoundError)
    ELSE Return("list", exec.validated)

one(exec) ==
    IF ~exec.ok THEN Raise(exec.error)
    ELSE IF Len(exec.validated) = 0 THEN Raise(NotFoundError)
    ELSE IF Len(exec.validated) > 1 THEN Raise(TooManyRowsError)
    ELSE Return("record", <<exec.validated[1]>>)

maybe_one(exec) ==
    IF ~exec.ok THEN Raise(exec.error)
    ELSE IF Len(exec.validated) > 1 THEN Raise(TooManyRowsError)
    ELSE IF Len(exec.validated) = 0 THEN Return("none", <<>>)
    ELSE Return("record", <<exec.validated[1]>>)

many(exec) ==
    IF ~exec.ok THEN Raise(exec.error)
    ELSE IF Len(exec.validated) = 0 THEN Raise(NotFoundError)
    ELSE Return("list", exec.validated)

any(exec) ==
    IF ~exec.ok THEN Raise(exec.error)
    ELSE Return("list", exec.validated)

Methods == {"one", "maybe_one", "many", "any"}

Finish(method, exec) ==
    IF method = "one" THEN one(exec)
    ELSE IF method = "maybe_one" THEN maybe_one(exec)
    ELSE IF method = "many" THEN many(exec)
    ELSE any(exec)

----------------------------------------------------------------------------
(* The blocking connection (Database, TypedConnection): the core algorithm *)
(* run to completion on the calling thread, and the non-typed primitives   *)
(* execute, scalar and execute_many.                                       *)

\* What the engine raises for a row whose key is already there.
IntegrityError == Err("IntegrityError")

\* insert(users) for the rows ids, and an insert into a table that does not
\* exist
InsertRows(ids) == [table |-> "users", where |-> "insert", cols |-> ids]
InsertNonexistent == [table |-> "nonexistent", where |-> "insert", cols |-> {1}]

\* The engine executing a statement of a non-typed primitive against the
\* rows the session sees: the rows returned, the rows written.
RawReply(ok, rows, error, wrote) ==
    [ok |-> ok, rows |-> rows, error |-> error, wrote |-> wrote]
RawExecute(stmt, ids) ==
    IF stmt.table # "users" THEN RawReply(FALSE, <<>>, EngineError, {})
    ELSE IF stmt.where # "insert"
         THEN RawReply(TRUE, RowsFrom(stmt, NoParams, ids, 1), NoError, {})
    ELSE IF stmt.cols \cap ids # {}
         THEN RawReply(FALSE, <<>>, IntegrityError, {})
    ELSE RawReply(TRUE, <<>>, NoError, stmt.cols)

\* Step 7: the error goes through run_on_error and what comes back is
\* raised.
sync_raise(chain, ctx, e, log, after) ==
    LET r == run_on_error(chain, ctx, e)
    IN  [ok |-> FALSE, validated |-> <<>>, orig |-> e,
         error |-> (IF IsException(r.error) THEN r.error ELSE TypeError),
         after |-> after, log |-> log \o r.log]

\* Steps 1 to 5 and 7 of the core algorithm: context, run_before, the
\* statement's execution, run_after over the raw rows, validation of every
\* row; an exception raised on the way goes through run_on_error.
sync_execute(chain, q, params, skip_validation, ids) ==
    LET ctx0 == QueryContext(q.statement, q.model, params, skip_validation)
        b == run_before(chain, ctx0)
        reply == ConnExecute(b.ctx.statement, b.ctx.params, ids)
        log1 == Append(b.log, Event("execute", 0, <<>>, reply.rows,
                                    NoError, reply.error))
        a == run_after(chain, b.ctx, reply.rows)
        log2 == log1 \o a.log
    IN  IF b.error # NoError
        THEN [ctx |-> b.ctx, reply |-> [ok |-> TRUE, rows |-> <<>>, error |-> NoError],
              exec |-> sync_raise(chain, b.ctx, b.error, b.log, <<>>)]
        ELSE IF ~reply.ok
        THEN [ctx |-> b.ctx, reply |-> reply,
              exec |-> sync_raise(chain, b.ctx, reply.error, log1, <<>>)]
        ELSE IF a.error # NoError
        THEN [ctx |-> b.ctx, reply |-> reply,
              exec |-> sync_raise(chain, b.ctx, a.error, log2, <<>>)]
        ELSE IF ~skip_validation
                /\ \E i \in DOMAIN a.rows : ~ModelValid(q.model, a.rows[i])
        THEN [ctx |-> b.ctx, reply |-> reply,
              exec |-> sync_raise(chain, b.ctx, ValidationError, log2, a.rows)]
        ELSE [ctx |-> b.ctx, reply |-> reply,
              exec |-> [ok |-> TRUE,
                        validated |->
                            [i \in DOMAIN a.rows |->
                                IF skip_validation
                                THEN model_construct(q.model, a.rows[i])
                                ELSE model_validate(q.model, a.rows[i])],
                        orig |-> NoError, error |-> NoError,
                        after |-> a.rows, log |-> log2]]

\* Step 6, the cardinality contract on the validated list: `one` exactly 1
\* row, `maybe_one` 0 or 1, `many` 1 or more, `any` any number.  Its errors
\* are raised to the caller as they are, as on the non-blocking connection.
sync_cardinality(method, exec) ==
    LET n == Len(exec.validated)
    IN  IF ~exec.ok THEN Raise(exec.error)
        ELSE IF method \in {"one", "many"} /\ n = 0 THEN Raise(NotFoundError)
        ELSE IF method \in {"one", "maybe_one"} /\ n > 1
             THEN Raise(TooManyRowsError)
        ELSE IF method \in {"many", "any"} THEN Return("list", exec.validated)
        ELSE IF n = 0 THEN Return("none", <<>>)
        ELSE Return("record", <<exec.validated[1]>>)

\* conn.one / maybe_one / many / any on the blocking connection
sync_call(chain, method, q, params, skip_validation, ids) ==
    LET e == sync_execute(chain, q, params, skip_validation, ids)
    IN  [ctx |-> e.ctx, reply |-> e.reply, exec |-> e.exec,
         result |-> sync_cardinality(method, e.exec)]

RawPrimitives == {"execute", "scalar", "execute_many"}

\* What a non-typed primitive returns: execute the number of rows
\* affected, scalar the first column of the first row (None without a
\* row), execute_many nothing.
RawResult(prim, stmt, reply) ==
    IF prim = "execute" THEN Return("count", <<Cardinality(reply.wrote)>>)
    ELSE IF prim = "scalar"
         THEN (IF Len(reply.rows) = 0 THEN Return("none", <<>>)
               ELSE Return("scalar", <<reply.rows[1]["id"]>>))
    ELSE Return("none", <<>>)

\* a primitive that hands the rows to the after hooks as a typed query does
sync_raw_runs_after(chain, prim, stmt, params, ids) ==
    LET ctx0 == QueryContext(stmt, "None", params, FALSE)
        b == run_before(chain, ctx0)
        reply == RawExecute(b.ctx.statement, ids)
        log1 == Append(b.log, Event("execute", 0, <<>>, reply.rows,
                                    NoError, reply.error))
        a == run_after(chain, b.ctx, reply.rows)
    IN  IF b.error # NoError
        THEN [ctx |-> b.ctx, reply |-> RawReply(TRUE, <<>>, NoError, {}),
              exec |-> sync_raise(chain, b.ctx, b.error, b.log, <<>>)]
        ELSE IF ~reply.ok
        THEN [ctx |-> b.ctx, reply |-> reply,
              exec |-> sync_raise(chain, b.ctx, reply.error, log1, <<>>)]
        ELSE IF a.error # NoError
        THEN [ctx |-> b.ctx, reply |-> reply,
              exec |-> sync_raise(chain, b.ctx, a.error, log1 \o a.log, <<>>)]
        ELSE [ctx |-> b.ctx, reply |-> reply,
              exec |-> [ok |-> TRUE, validated |-> <<>>, orig |-> NoError,
                        error |-> NoError, after |-> <<>>,
                        log |-> log1 \o a.log]]

\* conn.execute / scalar / execute_many up to the value returned: context,
\* run_before, the statement's execution; an exception raised on the way
\* goes through run_on_error.  No run_after, no validation.
sync_raw(chain, prim, stmt, params, ids) ==
    LET ctx0 == QueryContext(stmt, "None", params, FALSE)
        b == run_before(chain, ctx0)
        reply == RawExecute(b.ctx.statement, ids)
        log1 == Append(b.log, Event("execute", 0, <<>>, reply.rows,
                                    NoError, reply.error))
    IN  IF b.error # NoError
        THEN [ctx |-> b.ctx, reply |-> RawReply(TRUE, <<>>, NoError, {}),
              exec |-> sync_raise(chain, b.ctx, b.error, b.log, <<>>)]
        ELSE IF ~reply.ok
        THEN [ctx |-> b.ctx, reply |-> reply,
              exec |-> sync_raise(chain, b.ctx, reply.error, log1, <<>>)]
        ELSE [ctx |-> b.ctx, reply |-> reply,
              exec |-> [ok |-> TRUE, validated |-> <<>>, orig |-> NoError,
                        error |-> NoError, after |-> <<>>, log |-> log1]]

\* The statements the primitives are called with.
RawStatements(prim) ==
    IF prim = "execute" THEN {InsertRows({1}), InsertNonexistent}
    ELSE IF prim = "scalar" THEN {SelUsers, SelNonexistent}
    ELSE {InsertRows({1, 2})}

----------------------------------------------------------------------------
(* Schema management: plan (the differ) and apply (the applier).  A        *)
(* declared schema (MetaData) is a sequence of tables in declaration       *)
(* order, each a name and its columns in declaration order.  The live      *)
(* database's inventory says, for every table name, whether the table      *)
(* exists and which columns it has.                                        *)

TableNames == {"users", "posts"}

\* Table(name, metadata, Column(...), ...)
Table(name, columns) == [name |-> name, columns |-> columns]

Range(s) == {s[i] : i \in DOMAIN s}
Distinct(s) == \A i, j \in DOMAIN s : i # j => s[i] # s[j]

\* Every column list a table can declare: the primary key id, then any
\* of the other columns in any order, no repeats.
ColumnLists ==
    {s \in UNION {[1..n -> Columns] : n \in 1..Cardinality(Columns)} :
        s[1] = "id" /\ Distinct(s)}

Tables == {Table(n, c) : n \in TableNames, c \in ColumnLists}

TableNamesOf(metadata) == {metadata[i].name : i \in DOMAIN metadata}

\* Every MetaData: tables of distinct names, in declaration order.
MetaDatas ==
    {m \in UNION {[1..n -> Tables] : n \in 0..Cardinality(TableNames)} :
        \A i, j \in DOMAIN m : i # j => m[i].name # m[j].name}

\* The columns metadata declares for the table called name.
DeclaredColumns(metadata, name) ==
    LET i == CHOOSE i \in DOMAIN metadata : metadata[i].name = name
    IN  metadata[i].columns

Absent == [exists |-> FALSE, columns |-> {}]
LiveTable(columns) == [exists |-> TRUE, columns |-> columns]

\* Every inventory a live database can have.
Inventories ==
    [TableNames -> {Absent} \cup {LiveTable(c) : c \in SUBSET Columns \ {{}}}]

\* The introspection primitive: inspector.get_table_names(), get_columns()
get_table_names(db) == {t \in TableNames : db[t].exists}
get_columns(db, t) == db[t].columns

\* ChangeType and SchemaChange(change_type, table_name, detail=None)
CREATE_TABLE == "create_table"
ADD_COLUMN == "add_column"
ChangeType == {CREATE_TABLE, ADD_COLUMN}
NoDetail == "None"
SchemaChange(change_type, table_name, detail) ==
    [change_type |-> change_type, table_name |-> table_name, detail |-> detail]

\* a differ that lists a created table column by column as well
RECURSIVE CreateChanges_per_column(_, _, _)
CreateChanges_per_column(db, metadata, i) ==
    IF i > Len(metadata) THEN <<>>
    ELSE (IF metadata[i].name \in get_table_names(db) THEN <<>>
          ELSE <<SchemaChange(CREATE_TABLE, metadata[i].name, NoDetail),
                 SchemaChange(ADD_COLUMN, metadata[i].name,
                              metadata[i].columns[1])>>)
         \o CreateChanges_per_column(db, metadata, i + 1)

\* plan, first part: one CreateTable change, without detail, for every
\* declared table the live database lacks, in declaration order.
RECURSIVE CreateChanges(_, _, _)
CreateChanges(db, metadata, i) ==
    IF i > Len(metadata) THEN <<>>
    ELSE (IF metadata[i].name \in get_table_names(db) THEN <<>>
          ELSE <<SchemaChange(CREATE_TABLE, metadata[i].name, NoDetail)>>)
         \o CreateChanges(db, metadata, i + 1)

\* a differ that lists every declared column of a live table
RECURSIVE ColumnChanges_every_column(_, _, _)
ColumnChanges_every_column(db, table, j) ==
    IF j > Len(table.columns) THEN <<>>
    ELSE <<SchemaChange(ADD_COLUMN, table.name, table.columns[j])>>
         \o ColumnChanges_every_column(db, table, j + 1)

\* The AddColumn changes of one live table: one for every declared column
\* the live table lacks, the column name as detail, in declaration order.
RECURSIVE ColumnChanges(_, _, _)
ColumnChanges(db, table, j) ==
    IF j > Len(table.columns) THEN <<>>
    ELSE (IF table.columns[j] \in get_columns(db, table.name) THEN <<>>
          ELSE <<SchemaChange(ADD_COLUMN, table.name, table.columns[j])>>)
         \o ColumnChanges(db, table, j + 1)

\* plan, second part: the AddColumn changes of every table that is both
\* declared and live, table by table in declaration order.
RECURSIVE AddChanges(_, _, _)
AddChanges(db, metadata, i) ==
    IF i > Len(metadata) THEN <<>>
    ELSE (IF metadata[i].name \in get_table_names(db)
          THEN ColumnChanges(db, metadata[i], 1)
          ELSE <<>>)
         \o AddChanges(db, metadata, i + 1)

\* a differ that walks the declared tables once, listing each table's
\* change or changes where it meets the table
RECURSIVE plan_single_pass_from(_, _, _)
plan_single_pass_from(db, metadata, i) ==
    IF i > Len(metadata) THEN <<>>
    ELSE (IF metadata[i].name \in get_table_names(db)
          THEN ColumnChanges(db, metadata[i], 1)
          ELSE <<SchemaChange(CREATE_TABLE, metadata[i].name, NoDetail)>>)
         \o plan_single_pass_from(db, metadata, i + 1)

plan_single_pass(db, metadata) == plan_single_pass_from(db, metadata, 1)

\* plan(engine, metadata): the CreateTable changes, then the AddColumn
\* changes of the existing tables.
plan(db, metadata) ==
    CreateChanges(db, metadata, 1) \o AddChanges(db, metadata, 1)

\* Whether the engine refuses a change: adding a column to a table that
\* does not exist, or a column the table already has.
EngineRefuses(db, change) ==
    /\ change.change_type = ADD_COLUMN
    /\ \/ change.table_name \notin get_table_names(db)
       \/ change.detail \in get_columns(db, change.table_name)

\* a create-table that creates the table with its first column only
ExecChange_first_column(db, metadata, change) ==
    IF change.change_type = CREATE_TABLE
    THEN IF change.table_name \in get_table_names(db) THEN db
         ELSE [db EXCEPT ![change.table_name] =
                  LiveTable({DeclaredColumns(metadata, change.table_name)[1]})]
    ELSE [db EXCEPT ![change.table_name] =
             LiveTable(get_columns(db, change.table_name) \cup {change.detail})]

\* an add-column that rebuilds the table from the declared columns
ExecChange_rebuilds(db, metadata, change) ==
    IF change.change_type = CREATE_TABLE
    THEN IF change.table_name \in get_table_names(db) THEN db
         ELSE [db EXCEPT ![change.table_name] =
                  LiveTable(Range(DeclaredColumns(metadata, change.table_name)))]
    ELSE [db EXCEPT ![change.table_name] =
             LiveTable(Range(DeclaredColumns(metadata, change.table_name)))]

\* One change executed against the live database, as one atomic unit:
\* "create table if missing" with all the declared columns, or "add column".
ExecChange(db, metadata, change) ==
    IF change.change_type = CREATE_TABLE
    THEN IF change.table_name \in get_table_names(db) THEN db
         ELSE [db EXCEPT ![change.table_name] =
                  LiveTable(Range(DeclaredColumns(metadata, change.table_name)))]
    ELSE [db EXCEPT ![change.table_name] =
             LiveTable(get_columns(db, change.table_name) \cup {change.detail})]

\* What apply leaves behind: the live inventory, the changes it applied,
\* the changes it handed to the engine, the error it raised if any, and
\* the plan it had computed.
Applied(db, changes, applied, attempted, error) ==
    [db |-> db, changes |-> changes, applied |-> applied,
     attempted |-> attempted, error |-> error]

\* an applier that goes on with the next change after a failure
RECURSIVE ApplyFrom_continues(_, _, _, _, _, _, _)
ApplyFrom_continues(db, metadata, changes, k, failAt, applied, attempted) ==
    IF k > Len(changes)
    THEN Applied(db, changes, applied, attempted,
                 IF Len(applied) < Len(attempted) THEN EngineError ELSE NoError)
    ELSE IF k = failAt \/ EngineRefuses(db, changes[k])
         THEN ApplyFrom_continues(db, metadata, changes, k + 1, failAt,
                                  applied, Append(attempted, changes[k]))
         ELSE ApplyFrom_continues(ExecChange(db, metadata, changes[k]),
                                  metadata, changes, k + 1, failAt,
                                  Append(applied, changes[k]),
                                  Append(attempted, changes[k]))

\* apply's loop over the plan, from change k on.  failAt is the position
\* of the change at which the engine fails (0: it does not fail).
RECURSIVE ApplyFrom(_, _, _, _, _, _, _)
ApplyFrom(db, metadata, changes, k, failAt, applied, attempted) ==
    IF k > Len(changes)
    THEN Applied(db, changes, applied, attempted, NoError)
    ELSE IF k = failAt \/ EngineRefuses(db, changes[k])
         THEN Applied(db, changes, applied, Append(attempted, changes[k]),
                      EngineError)
         ELSE ApplyFrom(ExecChange(db, metadata, changes[k]), metadata,
                        changes, k + 1, failAt, Append(applied, changes[k]),
                        Append(attempted, changes[k]))

\* an applier that issues "create table if missing" for every declared
\* table before it turns to the plan
apply_creates_first(db, metadata, failAt) ==
    LET changes == plan(db, metadata)
        r == ApplyFrom(db, metadata, changes, 1, failAt, <<>>, <<>>)
    IN  Applied(r.db, changes, r.applied,
                [i \in 1..Len(metadata) |->
                    SchemaChange(CREATE_TABLE, metadata[i].name, NoDetail)]
                \o r.attempted,
                r.error)

Reverse(s) == [i \in 1..Len(s) |-> s[Len(s) + 1 - i]]

\* an applier that executes the plan from its last change to its first
apply_reversed(db, metadata, failAt) ==
    LET changes == plan(db, metadata)
        r == ApplyFrom(db, metadata, Reverse(changes), 1, failAt, <<>>, <<>>)
    IN  Applied(r.db, changes, r.applied, r.attempted, r.error)

\* apply(engine, metadata): calls plan, executes the changes in the order
\* plan lists them, returns the changes applied.
apply(db, metadata, failAt) ==
    ApplyFrom(db, metadata, plan(db, metadata), 1, failAt, <<>>, <<>>)

----------------------------------------------------------------------------
(* The command line: `pyreact db plan` and `pyreact db apply [--yes|-y]`.  *)

\* str(change): "<change_type>: <table>", then ".<detail>" when the change
\* has a detail
to_string(change) ==
    change.change_type \o ": " \o change.table_name \o
        (IF change.detail = NoDetail THEN "" ELSE "." \o change.detail)

\* a listing that prints the kind of change and the table only
Display_without_detail(changes) ==
    [i \in 1..Len(changes) |->
        changes[i].change_type \o ": " \o changes[i].table_name]

\* for change in changes: print(f"   * {change}"): the text of every line
\* after its bullet
Display(changes) == [i \in 1..Len(changes) |-> to_string(changes[i])]

\* The arguments after `pyreact db`.
Argvs ==
    {<<"plan">>, <<"apply">>, <<"apply", "--yes">>, <<"apply", "-y">>,
     <<"apply", "--force">>}

\* force = "--yes" in args or "-y" in args
Force(args) == \E i \in DOMAIN args : args[i] \in {"--yes", "-y"}

\* What input("Apply these changes? [y/N] ") gives: a line of text, or
\* KeyboardInterrupt or EOFError raised.
Typed(text) == [kind |-> "text", text |-> text]
Responses ==
    {Typed(s) : s \in {"y", "yes", "Y", " Yes ", "n", "no", "", "yes!"}}
        \cup {[kind |-> "KeyboardInterrupt", text |-> ""],
              [kind |-> "EOFError", text |-> ""]}

\* response.strip().lower()
strip_lower(text) ==
    IF text = "Y" THEN "y" ELSE IF text = " Yes " THEN "yes" ELSE text

\* a db_plan that goes on to apply what it listed
db_plan_applies(db, metadata) ==
    [db |-> apply(db, metadata, 0).db, changes |-> plan(db, metadata),
     displayed |-> Display(plan(db, metadata))]

\* db_plan: changes = plan(db.engine, metadata); print them
db_plan(db, metadata) ==
    [db |-> db, changes |-> plan(db, metadata),
     displayed |-> Display(plan(db, metadata))]

\* db_apply up to the prompt: plan, return when there is nothing to do,
\* print the changes, ask unless force
db_apply_plan(db, metadata, force) ==
    LET changes == plan(db, metadata)
    IN  [changes |-> changes,
         displayed |-> Display(changes),
         pc |-> IF changes = <<>> THEN "done"
                ELSE IF force THEN "apply" ELSE "prompt"]

\* a prompt that takes the empty answer for yes
db_apply_confirm_default_yes(response) ==
    IF response.kind = "KeyboardInterrupt" THEN "cancelled"
    ELSE IF response.kind = "EOFError" THEN "raised"
    ELSE IF strip_lower(response.text) \in {"y", "yes", ""} THEN "apply"
    ELSE "cancelled"

\* db_apply at the prompt: anything but y / yes cancels, KeyboardInterrupt
\* cancels, EOFError is not caught and leaves db_apply
db_apply_confirm(response) ==
    IF response.kind = "KeyboardInterrupt" THEN "cancelled"
    ELSE IF response.kind = "EOFError" THEN "raised"
    ELSE IF strip_lower(response.text) \in {"y", "yes"} THEN "apply"
    ELSE "cancelled"

\* applied = apply(db.engine, metadata): the changes printed are not
\* handed to apply, which plans again
db_apply_apply(db, metadata, changes, failAt) == apply(db, metadata, failAt)

\* The schema the typed queries of this model run against.
UsersMetaData == <<Table("users", <<"id", "name", "email">>)>>
UsersInventory ==
    [t \in TableNames |-> IF t = "users" THEN LiveTable(Columns) ELSE Absent]

----------------------------------------------------------------------------
(* State.                                                                  *)
(*   mode       the handle's execution mode: "nonblocking" is             *)
(*              AsyncDatabase, "blocking" is Database                      *)
(*   hooks      the database handle's hook chain (AsyncDatabase._hooks)    *)
(*   committed  ids of the rows committed to the users table               *)
(*   scopeKind  per task: the scope it is in ("none", "connection",        *)
(*              "transaction")                                             *)
(*   pending    per task: ids of the rows its session wrote, uncommitted   *)
(*   call       per task: the typed query in progress                      *)
(*   exitInfo   per task: how its last scope ended                         *)
(*   live       the live database's table and column inventory             *)
(*   declared   the declared schema (MetaData) handed to plan and apply    *)
(*   schemaOp   the last schema operation: what it was given and gave back *)
(*   chainOf    per task: the hook chain its connection holds (_hooks):    *)
(*              the handle's chain or a chain of its own, and whether the  *)
(*              handle's chain was empty when the connection was made      *)

NoQuery == query("", [table |-> "", where |-> "", cols |-> {}])
NoCtx == QueryContext(NoQuery.statement, "", "None", FALSE)
NoReply == [ok |-> TRUE, rows |-> <<>>, error |-> NoError]
NoExec ==
    [ok |-> TRUE, validated |-> <<>>, orig |-> NoError, error |-> NoError,
     after |-> <<>>, log |-> <<>>]
NoCall ==
    [pc |-> "idle", method |-> "", query |-> NoQuery, params |-> "None",
     skip |-> FALSE, ctx |-> NoCtx, reply |-> NoReply, exec |-> NoExec, result |-> NoResult]
NoExit ==
    [kind |-> "none", how |-> "none", body |-> NoError, raised |-> NoError,
     wrote |-> {}]

\* The rows a task's session sees: what is committed and what it wrote.
Visible(t) == committed \cup pending[t]

\* The task that inserts row i (each task inserts rows with its own keys).
Writer(i) == IF i % 2 = 1 THEN "t1" ELSE "t2"

\* What came before a schema operation: the operation, whether it ended
\* without error, and how many changes it applied.
NoPrev == [op |-> "none", ok |-> TRUE, applied |-> 0]
Prev(o) == [op |-> o.op, ok |-> o.error = NoError, applied |-> Len(o.applied)]

\* The `pyreact db` command: not started.
NoCli ==
    [pc |-> "idle", cmd |-> "", force |-> FALSE, before |-> UsersInventory,
     changes |-> <<>>, displayed |-> <<>>, prompted |-> FALSE,
     response |-> [kind |-> "none", text |-> ""], called |-> FALSE, applied |-> <<>>,
     error |-> NoError, altered |-> FALSE]

NoSchemaOp ==
    [op |-> "none", before |-> UsersInventory, changes |-> <<>>,
     applied |-> <<>>, attempted |-> <<>>, error |-> NoError, prev |-> NoPrev]

Modes == {"blocking", "nonblocking"}

\* The truth value of a HookChain instance: that of any object of a class
\* that defines neither __bool__ nor __len__.
HookChainTruthy(chain) == TRUE

NoChain == [ref |-> "none", wasEmpty |-> FALSE]

\* a connection that takes a chain of its own when handed an empty one
TypedConnectionInit_empty_is_none(chain) ==
    [ref |-> IF Len(chain) > 0 THEN "handle" ELSE "own",
     wasEmpty |-> chain = <<>>]

\* AsyncTypedConnection.__init__: self._hooks = hooks or HookChain()
TypedConnectionInit(chain) ==
    [ref |-> IF HookChainTruthy(chain) THEN "handle" ELSE "own",
     wasEmpty |-> chain = <<>>]

\* TypedConnection.__init__ of the blocking handle: the handle's chain
sync_TypedConnectionInit(chain) == [ref |-> "handle", wasEmpty |-> chain = <<>>]

\* What a connection made by the handle holds as its chain.
NewConnection ==
    IF mode = "blocking" THEN sync_TypedConnectionInit(hooks)
    ELSE TypedConnectionInit(hooks)

\* The hooks task t's connection runs: those of the handle's chain as it
\* is now, or none when the connection has an empty chain of its own.
ConnHooks(t) == IF chainOf[t].ref = "own" THEN <<>> ELSE hooks

InitWith(modes) ==
    /\ mode \in modes
    /\ hooks = <<>>
    /\ committed \in SUBSET RowIds
    /\ scopeKind = [t \in Tasks |-> "none"]
    /\ pending = [t \in Tasks |-> {}]
    /\ call = [t \in Tasks |-> NoCall]
    /\ exitInfo = [t \in Tasks |-> NoExit]
    /\ chainOf = [t \in Tasks |-> NoChain]
    /\ live = UsersInventory
    /\ declared = UsersMetaData
    /\ schemaOp = NoSchemaOp
    /\ cli = NoCli

\* An AsyncDatabase handle on a database holding any rows.
Init == InitWith({"nonblocking"})

\* A handle of either mode.
InitTx == InitWith(Modes)

\* AsyncDatabase.add_hook
add_hook(t, kind) ==
    /\ call[t].pc = "idle"
    /\ Len(hooks) < MaxHooks
    /\ hooks' = Append(hooks, kind)
    /\ UNCHANGED <<cli, chainOf, live, declared, schemaOp, mode, committed, scopeKind, pending, call, exitInfo>>

\* async with db.connection() as conn: entering the scope
connection(t) ==
    /\ scopeKind[t] = "none"
    /\ scopeKind' = [scopeKind EXCEPT ![t] = "connection"]
    /\ exitInfo' = [exitInfo EXCEPT ![t] = NoExit]
    /\ chainOf' = [chainOf EXCEPT ![t] = NewConnection]
    /\ UNCHANGED <<cli, live, declared, schemaOp, mode, hooks, committed, pending, call>>

\* async with db.transaction() as conn: entering the scope
transaction(t) ==
    /\ scopeKind[t] = "none"
    /\ scopeKind' = [scopeKind EXCEPT ![t] = "transaction"]
    /\ exitInfo' = [exitInfo EXCEPT ![t] = NoExit]
    /\ chainOf' = [chainOf EXCEPT ![t] = NewConnection]
    /\ UNCHANGED <<cli, live, declared, schemaOp, mode, hooks, committed, pending, call>>

\* conn._conn.execute(INSERT INTO users ...) in the body of a scope
Insert(t, i) ==
    /\ scopeKind[t] # "none"
    /\ call[t].pc = "idle"
    /\ Writer(i) = t
    /\ i \notin Visible(t)
    /\ pending' = [pending EXCEPT ![t] = @ \cup {i}]
    /\ UNCHANGED <<cli, chainOf, live, declared, schemaOp, mode, hooks, committed, scopeKind, call, exitInfo>>

\* an _execute that stores the context's statement and model name back
\* into the query object
TypedQueryAfter_written_back(q, ctx) == TypedQuery(ctx.model_name, ctx.statement)

\* The TypedQuery object after _execute has run up to its await: _execute
\* reads query.statement and query.model and assigns to neither, and the
\* context holds the statement and the model's name, not the query.
TypedQueryAfter(q, ctx) == q

\* conn.one / maybe_one / many / any with params, up to
\* `await self._conn.execute(...)`
CallWith(t, method, q, params, skip) ==
    /\ scopeKind[t] # "none"
    /\ call[t].pc = "idle"
    /\ LET b == ExecuteBegin(ConnHooks(t), q, params, skip)
       IN  call' = [call EXCEPT ![t] =
                [pc |-> IF b.raised THEN "raised" ELSE "awaiting",
                 method |-> method, query |-> TypedQueryAfter(q, b.ctx),
                 params |-> params, skip |-> skip, ctx |-> b.ctx,
                 reply |-> NoReply, exec |-> b.exec,
                 result |-> IF b.raised THEN Finish(method, b.exec) ELSE NoResult]]
    /\ UNCHANGED <<cli, chainOf, live, declared, schemaOp, mode, hooks, committed, scopeKind, pending, exitInfo>>

\* conn.one / maybe_one / many / any without params
Call(t, method, q, skip) == CallWith(t, method, q, NoParams, skip)

\* the engine replies: the rest of _execute and the cardinality check
EngineReply(t) ==
    /\ call[t].pc = "awaiting"
    /\ LET c == call[t]
           reply == ConnExecute(c.ctx.statement, c.ctx.params, Visible(t))
           ex == ExecuteFinish(ConnHooks(t), c.query, c.ctx, c.skip,
                               c.exec.log, reply)
           res == Finish(c.method, ex)
       IN  call' = [call EXCEPT ![t] =
                [c EXCEPT !.pc = IF res.kind = "raise" THEN "raised" ELSE "returned",
                          !.reply = reply, !.exec = ex, !.result = res]]
    /\ UNCHANGED <<cli, chainOf, live, declared, schemaOp, mode, hooks, committed, scopeKind, pending, exitInfo>>

\* _execute when its await is cancelled: CancelledError is raised at the
\* await, `except Exception` does not catch it, no hook runs.
ExecuteCancelled(exec) ==
    [ok |-> FALSE, validated |-> <<>>, orig |-> CancelledError,
     error |-> CancelledError, after |-> <<>>, log |-> exec.log]

\* the task is cancelled while its call awaits the engine
Cancel(t) ==
    /\ mode = "nonblocking"
    /\ call[t].pc = "awaiting"
    /\ LET ex == ExecuteCancelled(call[t].exec)
       IN  call' = [call EXCEPT ![t] =
                [@ EXCEPT !.pc = "raised", !.exec = ex,
                          !.result = Raise(ex.error)]]
    /\ UNCHANGED <<cli, chainOf, live, declared, schemaOp, mode, hooks, committed, scopeKind,
                   pending, exitInfo>>

\* the body goes on after the call (it used the result, or caught the error)
Continue(t) ==
    /\ call[t].pc \in {"returned", "raised"}
    /\ call' = [call EXCEPT ![t] = NoCall]
    /\ UNCHANGED <<cli, chainOf, live, declared, schemaOp, mode, hooks, committed, scopeKind, pending, exitInfo>>

\* What leaving a scope does: the committed rows, how the session ended
\* and the exception that reaches the caller of the scope.
Outcome(rows, how, raised) == [committed |-> rows, how |-> how, raised |-> raised]

\* a connection scope that commits what it wrote when the body ends
connection_exit_commits(rows, wrote, exc) ==
    IF exc = NoError THEN Outcome(rows \cup wrote, "commit", NoError)
    ELSE Outcome(rows, "close", exc)

\* AsyncDatabase.connection, `async with self.engine.connect() as conn`:
\* leaving closes the session, which discards what it wrote and did not
\* commit; an exception leaving the body passes on
connection_exit(rows, wrote, exc) == Outcome(rows, "close", exc)

\* a transaction scope that commits however the body ended
transaction_exit_commits(rows, wrote, exc) ==
    Outcome(rows \cup wrote, "commit", exc)

\* a transaction scope that rolls back for exceptions of other libraries
\* only
transaction_exit_own_errors_commit(rows, wrote, exc) ==
    IF exc \in {NoError, NotFoundError, TooManyRowsError, ValidationError}
    THEN Outcome(rows \cup wrote, "commit", exc)
    ELSE Outcome(rows, "rollback", exc)

\* a transaction scope that rolls back for Exception subclasses only
transaction_exit_exceptions_only(rows, wrote, exc) ==
    IF exc \in {NoError, CancelledError}
    THEN Outcome(rows \cup wrote, "commit", exc)
    ELSE Outcome(rows, "rollback", exc)

\* a transaction scope that forgets to commit on normal exit
transaction_exit_no_commit(rows, wrote, exc) ==
    IF exc = NoError THEN Outcome(rows, "close", NoError)
    ELSE Outcome(rows, "rollback", exc)

\* a transaction scope whose first write stays when the body raises
transaction_exit_keeps_first(rows, wrote, exc) ==
    IF exc = NoError THEN Outcome(rows \cup wrote, "commit", NoError)
    ELSE Outcome(rows \cup {i \in wrote : \A j \in wrote : i <= j},
                 "rollback", exc)

\* AsyncDatabase.transaction, `async with self.engine.begin() as conn`:
\* commit on normal exit, rollback and re-raise when an exception leaves
\* the body
transaction_exit(rows, wrote, exc) ==
    IF exc = NoError THEN Outcome(rows \cup wrote, "commit", NoError)
    ELSE Outcome(rows, "rollback", exc)

\* Database.connection and Database.transaction, the blocking handle
sync_connection_exit(rows, wrote, exc) == Outcome(rows, "close", exc)

sync_transaction_exit(rows, wrote, exc) ==
    IF exc = NoError THEN Outcome(rows \cup wrote, "commit", NoError)
    ELSE Outcome(rows, "rollback", exc)

\* Leaving the scope the task is in, with the exception leaving the body
\* (NoError on normal exit).
ScopeExit(t, exc) ==
    /\ scopeKind[t] # "none"
    /\ LET o == IF scopeKind[t] = "transaction"
                THEN (IF mode = "blocking"
                      THEN sync_transaction_exit(committed, pending[t], exc)
                      ELSE transaction_exit(committed, pending[t], exc))
                ELSE (IF mode = "blocking"
                      THEN sync_connection_exit(committed, pending[t], exc)
                      ELSE connection_exit(committed, pending[t], exc))
       IN  /\ committed' = o.committed
           /\ exitInfo' = [exitInfo EXCEPT ![t] =
                   [kind |-> scopeKind[t], how |-> o.how, body |-> exc,
                    raised |-> o.raised, wrote |-> pending[t]]]
    /\ scopeKind' = [scopeKind EXCEPT ![t] = "none"]
    /\ pending' = [pending EXCEPT ![t] = {}]
    /\ call' = [call EXCEPT ![t] = NoCall]
    /\ chainOf' = [chainOf EXCEPT ![t] = NoChain]
    /\ UNCHANGED <<cli, live, declared, schemaOp, hooks, mode>>

\* the body ends without raising
BodyReturns(t) ==
    /\ call[t].pc = "idle"
    /\ ScopeExit(t, NoError)

\* the body raises an exception of its own
BodyRaises(t) ==
    /\ call[t].pc = "idle"
    /\ ScopeExit(t, BodyError)

\* the body does not catch what the cardinality method raised
CallPropagates(t) ==
    /\ call[t].pc = "raised"
    /\ ScopeExit(t, call[t].result.error)

\* Typed queries on one connection, with every chain of hooks.
QueryTasks == {"t1"}

Next ==
    \/ \E t \in QueryTasks, k \in HookKinds : add_hook(t, k)
    \/ \E t \in QueryTasks : connection(t)
    \/ \E t \in QueryTasks, m \in Methods, q \in Queries, s \in BOOLEAN :
            Call(t, m, q, s)
    \/ \E t \in QueryTasks : EngineReply(t)
    \/ \E t \in QueryTasks : Continue(t)
    \/ \E t \in QueryTasks : BodyReturns(t)
    \/ \E t \in QueryTasks : CallPropagates(t)

Spec == Init /\ [][Next]_vars

\* conn.one / maybe_one / many / any on the blocking connection: the whole
\* call, on the calling thread
SyncCall(t, method, q, skip) ==
    /\ mode = "blocking"
    /\ scopeKind[t] # "none"
    /\ call[t].pc = "idle"
    /\ LET r == sync_call(ConnHooks(t), method, q, "None", skip, Visible(t))
       IN  call' = [call EXCEPT ![t] =
                [pc |-> IF r.result.kind = "raise" THEN "raised" ELSE "returned",
                 method |-> method, query |-> q, params |-> "None",
                 skip |-> skip, ctx |-> r.ctx,
                 reply |-> r.reply, exec |-> r.exec, result |-> r.result]]
    /\ UNCHANGED <<cli, chainOf, live, declared, schemaOp, mode, hooks, committed,
                   scopeKind, pending, exitInfo>>

\* conn.execute / scalar / execute_many on the blocking connection
RawCall(t, prim, stmt) ==
    /\ mode = "blocking"
    /\ scopeKind[t] # "none"
    /\ call[t].pc = "idle"
    /\ LET r == sync_raw(ConnHooks(t), prim, stmt, "None", Visible(t))
           res == IF r.exec.ok THEN RawResult(prim, stmt, r.reply)
                  ELSE Raise(r.exec.error)
       IN  /\ call' = [call EXCEPT ![t] =
                [pc |-> IF res.kind = "raise" THEN "raised" ELSE "returned",
                 method |-> prim, query |-> TypedQuery("None", stmt),
                 params |-> "None",
                 skip |-> FALSE, ctx |-> r.ctx,
                 reply |-> [ok |-> r.reply.ok, rows |-> r.reply.rows,
                            error |-> r.reply.error],
                 exec |-> r.exec, result |-> res]]
           /\ pending' = [pending EXCEPT ![t] =
                            IF r.exec.ok THEN @ \cup r.reply.wrote ELSE @]
    /\ UNCHANGED <<cli, chainOf, live, declared, schemaOp, mode, hooks, committed,
                   scopeKind, exitInfo>>

\* conn.one / maybe_one / many / any on the non-blocking connection
AsyncCall(t, method, q, skip) ==
    /\ mode = "nonblocking"
    /\ Call(t, method, q, skip)

\* A handle of either mode on an empty or a full users table; the hooks
\* that pass on, transform or raise.
ModeHookKinds == {"Hook", "TailHook", "BeforeFailHook", "AfterFailHook"}

InitModes ==
    /\ InitWith(Modes)
    /\ committed \in {{}, RowIds}

NextModes ==
    \/ \E t \in QueryTasks, k \in ModeHookKinds : add_hook(t, k)
    \/ \E t \in QueryTasks : connection(t)
    \/ \E t \in QueryTasks : transaction(t)
    \/ \E t \in QueryTasks, m \in Methods, q \in Queries, s \in BOOLEAN :
            AsyncCall(t, m, q, s)
    \/ \E t \in QueryTasks : EngineReply(t)
    \/ \E t \in QueryTasks, m \in Methods, q \in Queries, s \in BOOLEAN :
            SyncCall(t, m, q, s)
    \/ \E t \in QueryTasks, p \in RawPrimitives :
            \E stmt \in RawStatements(p) : RawCall(t, p, stmt)
    \/ \E t \in QueryTasks, i \in RowIds : Insert(t, i)
    \/ \E t \in QueryTasks : Continue(t)
    \/ \E t \in QueryTasks : BodyReturns(t)
    \/ \E t \in QueryTasks : BodyRaises(t)
    \/ \E t \in QueryTasks : CallPropagates(t)

SpecModes == InitModes /\ [][NextModes]_vars

\* Two tasks running typed queries at the same time on connections of one
\* non-blocking handle whose chain grows meanwhile.
ConcHookKinds == {"Hook", "BeforeFailHook", "AfterFailHook"}
ConcQueries == {query("User", SelUsers), query("User", SelNonexistent)}

InitConc ==
    /\ InitWith({"nonblocking"})
    /\ committed = RowIds

NextConc ==
    \/ \E t \in Tasks, k \in ConcHookKinds : add_hook(t, k)
    \/ \E t \in Tasks : connection(t)
    \/ \E t \in Tasks, m \in Methods, q \in ConcQueries : Call(t, m, q, FALSE)
    \/ \E t \in Tasks : EngineReply(t)
    \/ \E t \in Tasks : Continue(t)
    \/ \E t \in Tasks : BodyReturns(t)
    \/ \E t \in Tasks : CallPropagates(t)

SpecConc == InitConc /\ [][NextConc]_vars

\* Typed queries with and without params under hooks that rewrite the
\* context.
RewriteQueries ==
    {query("User", SelUsers), query("User", SelBind),
     query("UserSummary", SelIdName)}

NextRewrite ==
    \/ \E t \in QueryTasks, k \in RewriteKinds \cup {"Hook"} : add_hook(t, k)
    \/ \E t \in QueryTasks : connection(t)
    \/ \E t \in QueryTasks, m \in {"one", "any"}, q \in RewriteQueries,
          p \in Params : CallWith(t, m, q, p, FALSE)
    \/ \E t \in QueryTasks : EngineReply(t)
    \/ \E t \in QueryTasks : Continue(t)
    \/ \E t \in QueryTasks : BodyReturns(t)
    \/ \E t \in QueryTasks : CallPropagates(t)

SpecRewrite == Init /\ [][NextRewrite]_vars

\* Scopes, writes and reads of concurrent tasks on one database handle.
TxQueries == {query("User", SelUsers), query("User", SelNonexistent)}

NextTx ==
    \/ \E t \in Tasks : connection(t)
    \/ \E t \in Tasks : transaction(t)
    \/ \E t \in Tasks, i \in RowIds : Insert(t, i)
    \/ \E t \in Tasks, m \in Methods, q \in TxQueries : Call(t, m, q, FALSE)
    \/ \E t \in Tasks : EngineReply(t)
    \/ \E t \in Tasks : Continue(t)
    \/ \E t \in Tasks : BodyReturns(t)
    \/ \E t \in Tasks : BodyRaises(t)
    \/ \E t \in Tasks : CallPropagates(t)

SpecTx == InitTx /\ [][NextTx]_vars

\* The same on a non-blocking handle, with tasks being cancelled.
NextCancel ==
    \/ NextTx
    \/ \E t \in Tasks : Cancel(t)

SpecCancel == Init /\ [][NextCancel]_vars

\* A database with any inventory and any declared schema, nothing done yet.
InitSchema ==
    /\ mode = "blocking"
    /\ hooks = <<>>
    /\ committed = {}
    /\ scopeKind = [t \in Tasks |-> "none"]
    /\ pending = [t \in Tasks |-> {}]
    /\ call = [t \in Tasks |-> NoCall]
    /\ exitInfo = [t \in Tasks |-> NoExit]
    /\ chainOf = [t \in Tasks |-> NoChain]
    /\ live \in Inventories
    /\ declared \in MetaDatas
    /\ schemaOp = [NoSchemaOp EXCEPT !.before = live]
    /\ cli = NoCli

\* changes = plan(db.engine, metadata)
Plan ==
    /\ schemaOp' = [op |-> "plan", before |-> live,
                    changes |-> plan(live, declared), applied |-> <<>>,
                    attempted |-> <<>>, error |-> NoError,
                    prev |-> Prev(schemaOp)]
    /\ UNCHANGED <<cli, chainOf, live, declared, mode, hooks, committed,
                   scopeKind, pending, call, exitInfo>>

\* applied = apply(db.engine, metadata), the engine failing at change
\* failAt of the plan (0: at none)
Apply(failAt) ==
    /\ failAt \in 0..Len(plan(live, declared))
    /\ LET r == apply(live, declared, failAt)
       IN  /\ live' = r.db
           /\ schemaOp' = [op |-> "apply", before |-> live,
                           changes |-> r.changes, applied |-> r.applied,
                           attempted |-> r.attempted, error |-> r.error,
                           prev |-> Prev(schemaOp)]
    /\ UNCHANGED <<cli, chainOf, declared, mode, hooks, committed, scopeKind,
                   pending, call, exitInfo>>

\* The most changes a plan can list.
MaxChanges == Cardinality(TableNames) * Cardinality(Columns)

NextSchema ==
    \/ Plan
    \/ \E failAt \in 0..MaxChanges : Apply(failAt)

SpecSchema == InitSchema /\ [][NextSchema]_vars

\* What is left unchanged by a step of the command line.
CliFrame ==
    UNCHANGED <<chainOf, declared, schemaOp, mode, hooks, committed,
                scopeKind, pending, call, exitInfo>>

\* db_command(args), as the first command or after a `pyreact db plan`:
\* `pyreact db plan` runs db_plan to its end; `pyreact db apply` runs
\* db_apply up to the prompt or, when forced, up to the call of apply
DbCommand(args) ==
    /\ cli.pc = "idle" \/ (cli.pc = "done" /\ cli.cmd = "plan")
    /\ IF args[1] = "plan"
       THEN LET r == db_plan(live, declared)
            IN  /\ live' = r.db
                /\ cli' = [NoCli EXCEPT !.pc = "done", !.cmd = "plan",
                                        !.before = live,
                                        !.changes = r.changes,
                                        !.displayed = r.displayed]
       ELSE LET r == db_apply_plan(live, declared, Force(args))
            IN  /\ live' = live
                /\ cli' = [NoCli EXCEPT !.pc = r.pc, !.cmd = "apply",
                                        !.force = Force(args),
                                        !.before = live,
                                        !.changes = r.changes,
                                        !.displayed = r.displayed]
    /\ CliFrame

\* the user answers the prompt, or interrupts it
Prompt(response) ==
    /\ cli.pc = "prompt"
    /\ LET next == db_apply_confirm(response)
       IN  cli' = [cli EXCEPT !.prompted = TRUE, !.response = response,
                              !.pc = IF next = "apply" THEN "apply" ELSE "done",
                              !.error = IF next = "raised" THEN Err("EOFError")
                                        ELSE NoError]
    /\ UNCHANGED live
    /\ CliFrame

\* db_apply calls apply; the engine fails at change failAt (0: at none)
DbApplyApply(failAt) ==
    /\ cli.pc = "apply"
    /\ failAt \in 0..Len(plan(live, declared))
    /\ LET r == db_apply_apply(live, declared, cli.changes, failAt)
       IN  /\ live' = r.db
           /\ cli' = [cli EXCEPT !.pc = "done", !.called = TRUE,
                                  !.before = live,
                                  !.applied = r.applied, !.error = r.error]
    /\ CliFrame

\* another process creates, extends or drops a table between db_apply's
\* plan and its call of apply
ExternalChange(name, table) ==
    /\ cli.pc \in {"prompt", "apply"}
    /\ ~cli.altered
    /\ live[name] # table
    /\ live' = [live EXCEPT ![name] = table]
    /\ cli' = [cli EXCEPT !.altered = TRUE]
    /\ CliFrame

NextCli ==
    \/ \E args \in Argvs : DbCommand(args)
    \/ \E response \in Responses : Prompt(response)
    \/ \E failAt \in 0..MaxChanges : DbApplyApply(failAt)
    \/ \E name \in TableNames,
          table \in {Absent, LiveTable({"id"}), LiveTable({"id", "name"}),
                     LiveTable(Columns)} :
            ExternalChange(name, table)

\* The schemas db/schema.py declares in the runs of the command line: one
\* table, or two.
InitCli ==
    /\ InitSchema
    /\ declared \in
          {UsersMetaData,
           <<Table("users", <<"id", "name">>),
             Table("posts", <<"id", "email">>)>>}

SpecCli == InitCli /\ [][NextCli]_vars

----------------------------------------------------------------------------
(* Properties.                                                             *)

\* The call of task t has finished (returned or raised) and is still held.
Done(t) == call[t].pc \in {"returned", "raised"}

\* The statement of call c was handed to the engine.
Executed(c) == \E k \in 1..Len(c.exec.log) : c.exec.log[k].op = "execute"

\* The engine returned rows for call c and the chain's after stage hands
\* them on unchanged, without raising.
PassesRows(c) ==
    /\ Executed(c)
    /\ c.reply.ok
    /\ LET a == run_after(hooks, c.ctx, c.reply.rows)
       IN  a.error = NoError /\ a.rows = c.reply.rows

\* The record one row becomes.
Validated(model, row, skip) ==
    IF skip THEN model_construct(model, row) ELSE model_validate(model, row)

\* The rows the engine returned for call c pass the chain unchanged and
\* all of them validate.
CleanRows(c) ==
    /\ PassesRows(c)
    /\ ~ValidationFails(c.query.model, c.reply.rows, c.skip)

\* C1: with a chain that passes the rows through unchanged and rows that
\* validate, `one` returns the validated record of the single row when the
\* statement yields exactly 1 row, raises NotFoundError when it yields 0
\* rows and TooManyRowsError when it yields 2 or more; whenever it returns
\* a record under a pass-through chain the statement yielded exactly 1 row.
C1_OneContract ==
    \A t \in Tasks :
        LET c == call[t]
            n == Len(c.reply.rows)
        IN  (Done(t) /\ c.method = "one") =>
              /\ CleanRows(c) =>
                    /\ n = 0 => c.result = Raise(NotFoundError)
                    /\ n = 1 => c.result =
                          Return("record",
                                 <<Validated(c.query.model, c.reply.rows[1], c.skip)>>)
                    /\ n >= 2 => c.result = Raise(TooManyRowsError)
              /\ (PassesRows(c) /\ c.result.kind # "raise") =>
                    (n = 1 /\ c.result.kind = "record")

C1_Witness ==
    \E t \in Tasks :
        /\ Done(t) /\ call[t].method = "one" /\ Len(hooks) >= 1
        /\ CleanRows(call[t]) /\ Len(call[t].reply.rows) = 1
        /\ call[t].result.kind = "record"

\* C2: `maybe_one` never raises NotFoundError; when _execute produced the
\* validated list it returns null for 0 records, the record for exactly 1
\* and raises TooManyRowsError for 2 or more; with a pass-through chain and
\* valid rows the validated list has as many records as the statement
\* yielded rows.
C2_MaybeOneContract ==
    \A t \in Tasks :
        LET c == call[t]
            v == c.exec.validated
        IN  (Done(t) /\ c.method = "maybe_one") =>
              /\ c.result.error.type # "NotFoundError"
              /\ c.exec.ok =>
                    /\ Len(v) = 0 => c.result = Return("none", <<>>)
                    /\ Len(v) = 1 => c.result = Return("record", <<v[1]>>)
                    /\ Len(v) >= 2 => c.result = Raise(TooManyRowsError)
              /\ CleanRows(c) => (c.exec.ok /\ Len(v) = Len(c.reply.rows))

C2_Witness ==
    \E t \in Tasks :
        /\ Done(t) /\ call[t].method = "maybe_one"
        /\ CleanRows(call[t]) /\ Len(call[t].reply.rows) = 0
        /\ call[t].result.kind = "none"

\* C3: `many` raises NotFoundError exactly when _execute produced a
\* validated list of 0 records; for n >= 1 it returns all n records, each
\* the record of the row at the same position (the engine's order when the
\* chain passes the rows through), and it never raises TooManyRowsError.
C3_ManyContract ==
    \A t \in Tasks :
        LET c == call[t]
            v == c.exec.validated
        IN  (Done(t) /\ c.method = "many") =>
              /\ (c.result.error.type = "NotFoundError") <=> (c.exec.ok /\ Len(v) = 0)
              /\ c.result.error.type # "TooManyRowsError"
              /\ (c.exec.ok /\ Len(v) >= 1) =>
                    /\ c.result.kind = "list"
                    /\ Len(c.result.recs) = Len(c.exec.after)
                    /\ \A i \in 1..Len(c.exec.after) :
                          c.result.recs[i] =
                              Validated(c.query.model, c.exec.after[i], c.skip)
              /\ CleanRows(c) => (c.exec.ok /\ c.exec.after = c.reply.rows)

C3_Witness ==
    \E t \in Tasks :
        /\ Done(t) /\ call[t].method = "many"
        /\ CleanRows(call[t]) /\ Len(call[t].reply.rows) >= 2
        /\ call[t].result.kind = "list" /\ Len(call[t].result.recs) >= 2

\* C4: `any` never raises NotFoundError or TooManyRowsError; when _execute
\* produced the validated list it returns that whole list, the empty list
\* when there are 0 records.
C4_AnyContract ==
    \A t \in Tasks :
        LET c == call[t]
            v == c.exec.validated
        IN  (Done(t) /\ c.method = "any") =>
              /\ c.result.error.type \notin {"NotFoundError", "TooManyRowsError"}
              /\ c.exec.ok => c.result = Return("list", v)
              /\ CleanRows(c) =>
                    /\ c.result.kind = "list"
                    /\ Len(c.result.recs) = Len(c.reply.rows)

C4_Witness ==
    \E t \in Tasks :
        /\ Done(t) /\ call[t].method = "any"
        /\ CleanRows(call[t]) /\ Len(call[t].reply.rows) = 0
        /\ call[t].result = Return("list", <<>>)

\* The ids of the rows a connection acquired now reads from the table.
FreshRead ==
    LET r == ConnExecute(SelUsers, NoParams, committed).rows
    IN  {r[k]["id"] : k \in 1..Len(r)}

\* C5: when an exception leaves the body of a transaction scope, the scope
\* rolls back, a connection acquired afterwards reads none of the rows the
\* scope wrote, and the caller of the scope gets the very exception that
\* left the body.
C5_RollbackOnException ==
    \A t \in Tasks :
        (exitInfo[t].kind = "transaction" /\ exitInfo[t].body # NoError) =>
            /\ exitInfo[t].how = "rollback"
            /\ exitInfo[t].raised = exitInfo[t].body
            /\ exitInfo[t].wrote \cap FreshRead = {}

C5_Witness ==
    \E t \in Tasks :
        /\ mode = "nonblocking"
        /\ exitInfo[t].kind = "transaction" /\ exitInfo[t].body = BodyError
        /\ exitInfo[t].wrote # {} /\ exitInfo[t].how = "rollback"

\* C6: when the body of a transaction scope ends without raising, the
\* scope commits, nothing is raised, and a connection acquired after the
\* exit reads every row the scope wrote; in both modes.
C6_CommitOnSuccess ==
    \A t \in Tasks :
        (exitInfo[t].kind = "transaction" /\ exitInfo[t].body = NoError) =>
            /\ exitInfo[t].how = "commit"
            /\ exitInfo[t].raised = NoError
            /\ exitInfo[t].wrote \subseteq FreshRead

C6_Witness ==
    \E t \in Tasks :
        /\ mode = "nonblocking"
        /\ exitInfo[t].kind = "transaction" /\ exitInfo[t].body = NoError
        /\ exitInfo[t].wrote # {} /\ exitInfo[t].how = "commit"

\* The entries of the record of call c made by one stage of the chain.
IsAfter(e) == e.op = "after"
IsOnError(e) == e.op = "on_error"
AfterEvents(c) == SelectSeq(c.exec.log, IsAfter)
OnErrorEvents(c) == SelectSeq(c.exec.log, IsOnError)

\* C7: for a typed query whose _execute succeeds under the chain H1..Hn,
\* the calls made are H1.before, ..., Hn.before, the statement's execution,
\* H1.after, ..., Hn.after, each exactly once and in this order.
C7_HookOrder ==
    \A t \in Tasks :
        LET c == call[t]
            log == c.exec.log
            n == Len(hooks)
        IN  (Done(t) /\ c.exec.ok) =>
              /\ Len(log) = 2 * n + 1
              /\ \A i \in 1..n : log[i].op = "before" /\ log[i].hook = i
              /\ log[n + 1].op = "execute"
              /\ \A i \in 1..n :
                    log[n + 1 + i].op = "after" /\ log[n + 1 + i].hook = i

C7_Witness ==
    \E t \in Tasks :
        /\ Done(t) /\ call[t].exec.ok /\ Len(hooks) >= 2
        /\ call[t].result.kind = "list"

C9_AfterPipeline ==
    \A t \in Tasks :
        LET c == call[t]
            A == AfterEvents(c)
            last == IF Len(A) = 0 THEN c.reply.rows ELSE A[Len(A)].out
        IN  (Done(t) /\ Executed(c) /\ c.reply.ok) =>
              /\ Len(A) >= 1 => A[1].rows = c.reply.rows
              /\ \A i \in 2..Len(A) : A[i].rows = A[i - 1].out
              /\ \A i \in 1..Len(A) : A[i].hook = i
              /\ c.exec.ok =>
                    /\ Len(A) = Len(hooks)
                    /\ c.exec.after = last
                    /\ c.exec.validated =
                          ValidateFrom(c.query.model, last, c.skip, 1)
                    /\ c.result.kind = "list" =>
                          c.result.recs = ValidateFrom(c.query.model, last, c.skip, 1)

C9_Witness ==
    \E t \in Tasks :
        LET A == AfterEvents(call[t])
        IN  /\ Done(t) /\ call[t].exec.ok /\ Len(A) = 2
            /\ A[1].out # A[1].rows /\ A[2].out # A[2].rows
            /\ call[t].result.kind = "list"

StepRaises(c) ==
    \/ \E k \in 1..Len(hooks) : BeforeRaises(hooks[k])
    \/ /\ Executed(c)
       /\ \/ ~c.reply.ok
          \/ LET a == run_after(hooks, c.ctx, c.reply.rows)
             IN  \/ a.error # NoError
                 \/ ValidationFails(c.query.model, a.rows, c.skip)

\* C11: whenever a step of a typed query raises, the call ends by raising
\* an exception to its caller, never by returning, whatever the on_error
\* hooks return (an error, another error, or None).
C11_NeverSwallowed ==
    \A t \in Tasks :
        LET c == call[t]
        IN  (Done(t) /\ StepRaises(c)) =>
              /\ c.pc = "raised"
              /\ c.result.kind = "raise"
              /\ IsException(c.result.error)

\* the engine failed, the last on_error hook returned None, the call raised
C11_Witness ==
    \E t \in Tasks :
        LET c == call[t]
            E == OnErrorEvents(c)
        IN  /\ c.pc = "raised" /\ Executed(c) /\ ~c.reply.ok
            /\ c.method = "any"
            /\ Len(E) >= 1 /\ E[Len(E)].errOut = NoneValue
            /\ c.result.error = TypeError

----------------------------------------------------------------------------
(* Properties of plan and apply.  schemaOp holds the last operation: the   *)
(* inventory it found (before), the plan it computed (changes), and for    *)
(* apply the changes handed to the engine (attempted), the changes applied *)
(* and returned (applied) and the error raised; live is the inventory it   *)
(* left.                                                                   *)

\* The live inventory has every declared table with every declared column.
InSync(db, metadata) ==
    \A i \in DOMAIN metadata :
        /\ metadata[i].name \in get_table_names(db)
        /\ Range(metadata[i].columns) \subseteq get_columns(db, metadata[i].name)

\* Position of table name in the declaration, of column col in its table.
TableIndex(metadata, name) ==
    CHOOSE i \in DOMAIN metadata : metadata[i].name = name
ColumnIndex(metadata, name, col) ==
    LET cols == DeclaredColumns(metadata, name)
    IN  CHOOSE j \in DOMAIN cols : cols[j] = col

\* What change c asks for is there in inventory db.
InPlace(db, metadata, c) ==
    /\ c.table_name \in get_table_names(db)
    /\ IF c.change_type = CREATE_TABLE
       THEN Range(DeclaredColumns(metadata, c.table_name))
                \subseteq get_columns(db, c.table_name)
       ELSE c.detail \in get_columns(db, c.table_name)

\* The changes of a plan that concern table name, in the plan's order.
ChangesOf(changes, name) ==
    LET OnTable(c) == c.table_name = name
    IN  SelectSeq(changes, OnTable)

ApplyOk == schemaOp.op = "apply" /\ schemaOp.error = NoError
ApplyFailed == schemaOp.op = "apply" /\ schemaOp.error # NoError

\* C12: a plan computed directly after a successful apply of the same
\* declared schema on the same database is empty, and so is the plan of a
\* database that already has every declared table and column.
C12_Idempotent ==
    schemaOp.op = "plan" =>
        /\ (schemaOp.prev.op = "apply" /\ schemaOp.prev.ok)
              => schemaOp.changes = <<>>
        /\ InSync(schemaOp.before, declared) => schemaOp.changes = <<>>

\* a plan right after an apply that applied two changes or more
C12_Witness ==
    /\ schemaOp.op = "plan"
    /\ schemaOp.prev.op = "apply" /\ schemaOp.prev.ok
    /\ schemaOp.prev.applied >= 2
    /\ schemaOp.changes = <<>>

\* C13: for every declared table the live database lacks, the plan holds
\* exactly one change on that table, and it is CreateTable without detail
\* (so no AddColumn for any of the table's columns).
C13_CreateTable ==
    schemaOp.op = "plan" =>
        \A i \in DOMAIN declared :
            LET name == declared[i].name
                P == ChangesOf(schemaOp.changes, name)
            IN  name \notin get_table_names(schemaOp.before) =>
                    P = <<SchemaChange(CREATE_TABLE, name, NoDetail)>>

\* a declared table of three columns that the live database lacks
C13_Witness ==
    /\ schemaOp.op = "plan"
    /\ \E i \in DOMAIN declared :
          /\ declared[i].name \notin get_table_names(schemaOp.before)
          /\ Len(declared[i].columns) = 3
          /\ Len(ChangesOf(schemaOp.changes, declared[i].name)) = 1

\* C14: for every table both declared and live, the plan's changes on that
\* table are AddColumn changes, one for each declared column the live table
\* lacks and none for a column it has, the column name as detail, in the
\* order the columns are declared.
C14_AddColumn ==
    schemaOp.op = "plan" =>
        \A i \in DOMAIN declared :
            LET name == declared[i].name
                P == ChangesOf(schemaOp.changes, name)
                missing == Range(declared[i].columns)
                              \ get_columns(schemaOp.before, name)
            IN  name \in get_table_names(schemaOp.before) =>
                  /\ \A k \in DOMAIN P : P[k].change_type = ADD_COLUMN
                  /\ {P[k].detail : k \in DOMAIN P} = missing
                  /\ Len(P) = Cardinality(missing)
                  /\ \A a, b \in DOMAIN P :
                        a < b => ColumnIndex(declared, name, P[a].detail)
                                    < ColumnIndex(declared, name, P[b].detail)

\* a live table that lacks two declared columns and has the first one
C14_Witness ==
    /\ schemaOp.op = "plan"
    /\ \E i \in DOMAIN declared :
          LET P == ChangesOf(schemaOp.changes, declared[i].name)
          IN  /\ declared[i].name \in get_table_names(schemaOp.before)
              /\ declared[i].columns[1]
                    \in get_columns(schemaOp.before, declared[i].name)
              /\ Len(P) = 2
              /\ P[1].detail = declared[i].columns[2]
              /\ P[2].detail = declared[i].columns[3]

\* C15: every change of a plan is CreateTable or AddColumn on a declared
\* table (and, for AddColumn, a declared column), so nothing that is only
\* live is ever listed; after apply, whether it succeeded or failed, every
\* table and column that was live before is still live.
C15_AdditiveOnly ==
    /\ schemaOp.op \in {"plan", "apply"} =>
          \A k \in DOMAIN schemaOp.changes :
              LET c == schemaOp.changes[k]
              IN  /\ c.change_type \in ChangeType
                  /\ c.table_name \in TableNamesOf(declared)
                  /\ c.change_type = ADD_COLUMN =>
                        c.detail \in Range(DeclaredColumns(declared, c.table_name))
    /\ schemaOp.op = "apply" =>
          \A t \in get_table_names(schemaOp.before) :
              /\ t \in get_table_names(live)
              /\ get_columns(schemaOp.before, t) \subseteq get_columns(live, t)

\* an apply that added a column to a table holding an undeclared column,
\* on a database holding an undeclared table
C15_Witness ==
    /\ ApplyOk
    /\ get_table_names(schemaOp.before) \ TableNamesOf(declared) # {}
    /\ \E k \in DOMAIN schemaOp.applied :
          LET c == schemaOp.applied[k]
          IN  /\ c.change_type = ADD_COLUMN
              /\ get_columns(schemaOp.before, c.table_name)
                    \ Range(DeclaredColumns(declared, c.table_name)) # {}

\* C16: apply hands the engine the changes of the plan it computed, in the
\* plan's order; when it succeeds the list it returns is the whole plan,
\* every returned change is in place in the live database and was not
\* there before, and nothing else in the inventory changed.  For live
\* users(id, name) and declared users(id, name, email) it returns
\* <<AddColumn(users, email)>> and users then has the column email.
C16_ApplyInOrder ==
    schemaOp.op = "apply" =>
        /\ schemaOp.changes = plan(schemaOp.before, declared)
        /\ Len(schemaOp.attempted) <= Len(schemaOp.changes)
        /\ schemaOp.attempted
              = SubSeq(schemaOp.changes, 1, Len(schemaOp.attempted))
        /\ schemaOp.error = NoError =>
              /\ schemaOp.applied = schemaOp.changes
              /\ \A k \in DOMAIN schemaOp.applied :
                    /\ InPlace(live, declared, schemaOp.applied[k])
                    /\ ~InPlace(schemaOp.before, declared, schemaOp.applied[k])
              /\ \A t \in TableNames :
                    live[t] # schemaOp.before[t] =>
                        ChangesOf(schemaOp.applied, t) # <<>>
        /\ ( /\ schemaOp.error = NoError
             /\ declared = UsersMetaData
             /\ schemaOp.before["users"] = LiveTable({"id", "name"}) )
           => /\ schemaOp.applied
                    = <<SchemaChange(ADD_COLUMN, "users", "email")>>
              /\ "email" \in get_columns(live, "users")

\* users(id, name) brought to users(id, name, email)
C16_Witness ==
    /\ ApplyOk
    /\ declared = UsersMetaData
    /\ schemaOp.before["users"] = LiveTable({"id", "name"})
    /\ schemaOp.applied = <<SchemaChange(ADD_COLUMN, "users", "email")>>
    /\ live["users"] = LiveTable({"id", "name", "email"})

\* C17: when the plan is empty, as it is when the live database already
\* matches the declared schema, apply hands nothing to the engine, leaves
\* the inventory as it was and returns the empty list; so does an apply
\* directly after a successful apply.
C17_EmptyApply ==
    schemaOp.op = "apply" =>
        LET nothing == /\ schemaOp.attempted = <<>>
                       /\ schemaOp.applied = <<>>
                       /\ schemaOp.error = NoError
                       /\ live = schemaOp.before
        IN  /\ schemaOp.changes = <<>> => nothing
            /\ InSync(schemaOp.before, declared) => nothing
            /\ (schemaOp.prev.op = "apply" /\ schemaOp.prev.ok) => nothing

\* a second apply after one that applied changes
C17_Witness ==
    /\ ApplyOk
    /\ schemaOp.prev.op = "apply" /\ schemaOp.prev.ok
    /\ schemaOp.prev.applied >= 1
    /\ declared # <<>>
    /\ schemaOp.attempted = <<>>
    /\ live = schemaOp.before

\* C18: when the k-th change of the plan fails, the engine was handed
\* changes 1..k and no other, changes 1..k-1 are in place in the live
\* database, changes k..n are not, and apply raises the engine's error.
C18_PartialFailure ==
    ApplyFailed =>
        LET k == Len(schemaOp.attempted)
            n == Len(schemaOp.changes)
        IN  /\ 1 <= k /\ k <= n
            /\ schemaOp.attempted = SubSeq(schemaOp.changes, 1, k)
            /\ schemaOp.applied = SubSeq(schemaOp.changes, 1, k - 1)
            /\ \A j \in 1..(k - 1) :
                  InPlace(live, declared, schemaOp.changes[j])
            /\ \A j \in k..n :
                  ~InPlace(live, declared, schemaOp.changes[j])
            /\ schemaOp.error = EngineError

\* a plan of three changes or more that failed at its second change
C18_Witness ==
    /\ ApplyFailed
    /\ Len(schemaOp.changes) >= 3
    /\ Len(schemaOp.attempted) = 2
    /\ Len(schemaOp.applied) = 1
    /\ live # schemaOp.before

\* C19: in every plan each AddColumn change comes after every CreateTable
\* change, the CreateTable changes are in table declaration order, and the
\* AddColumn changes of one table are in that table's column order.
C19_PlanOrder ==
    schemaOp.op \in {"plan", "apply"} =>
        \A a, b \in DOMAIN schemaOp.changes :
            LET x == schemaOp.changes[a]
                y == schemaOp.changes[b]
            IN  /\ (x.change_type = CREATE_TABLE /\ y.change_type = ADD_COLUMN)
                      => a < b
                /\ ( /\ x.change_type = CREATE_TABLE
                     /\ y.change_type = CREATE_TABLE
                     /\ a < b )
                      => TableIndex(declared, x.table_name)
                            < TableIndex(declared, y.table_name)
                /\ ( /\ x.change_type = ADD_COLUMN
                     /\ y.change_type = ADD_COLUMN
                     /\ x.table_name = y.table_name
                     /\ a < b )
                      => ColumnIndex(declared, x.table_name, x.detail)
                            < ColumnIndex(declared, y.table_name, y.detail)

\* a new table declared after an existing table that lacks two columns
C19_Witness ==
    /\ schemaOp.op = "plan"
    /\ Len(schemaOp.changes) = 3
    /\ schemaOp.changes[1].change_type = CREATE_TABLE
    /\ schemaOp.changes[2].change_type = ADD_COLUMN
    /\ schemaOp.changes[3].change_type = ADD_COLUMN
    /\ TableIndex(declared, schemaOp.changes[2].table_name)
          < TableIndex(declared, schemaOp.changes[1].table_name)

----------------------------------------------------------------------------
(* Validation.                                                             *)

\* C20: with skip_validation false, when the rows that reach validation
\* hold one that does not validate, each of one, maybe_one, many and any
\* raises and returns no record, however many of the other rows are valid;
\* the error raised inside _execute is ValidationError, and it is what the
\* caller gets when every on_error hook returns the error it was given.
C20_AllOrNothing ==
    \A t \in Tasks :
        LET c == call[t]
            a == run_after(hooks, c.ctx, c.reply.rows)
        IN  ( /\ Done(t) /\ Executed(c) /\ c.reply.ok /\ a.error = NoError
              /\ ~c.skip
              /\ \E i \in DOMAIN a.rows : ~ModelValid(c.query.model, a.rows[i]) )
            => /\ c.pc = "raised"
               /\ c.result.kind = "raise"
               /\ c.result.recs = <<>>
               /\ c.exec.validated = <<>>
               /\ c.exec.orig = ValidationError
               /\ (\A k \in DOMAIN hooks :
                      on_error(hooks[k], c.ctx, ValidationError) = ValidationError)
                     => c.result.error = ValidationError

\* `many` on three rows of which the first two validate and the third does
\* not
C20_Witness ==
    \E t \in Tasks :
        LET c == call[t]
        IN  /\ c.pc = "raised" /\ c.method = "many" /\ ~c.skip
            /\ Len(c.exec.after) = 3
            /\ ModelValid(c.query.model, c.exec.after[1])
            /\ ModelValid(c.query.model, c.exec.after[2])
            /\ ~ModelValid(c.query.model, c.exec.after[3])
            /\ c.result = Raise(ValidationError)

\* The rows call c hands to validation: the engine's rows after the after
\* hooks (defined when the engine returned rows and no after hook raised).
ReachesValidation(c) ==
    /\ Executed(c)
    /\ c.reply.ok
    /\ run_after(hooks, c.ctx, c.reply.rows).error = NoError
RowsToValidate(c) == run_after(hooks, c.ctx, c.reply.rows).rows

\* How call c would have ended with the other value of skip_validation,
\* on the same engine reply and under the same chain.
WithFlagFlipped(c) ==
    Finish(c.method,
           ExecuteFinish(hooks, c.query, c.ctx, ~c.skip, <<>>, c.reply))

\* C21: when the rows handed to validation lack a declared field, the call
\* with skip_validation true raises no ValidationError, builds a record of
\* the fields each row has and returns it (the cardinality contract
\* permitting), and the same call on the same rows with skip_validation
\* false raises ValidationError.
C21_SkipValidation ==
    \A t \in Tasks :
        LET c == call[t]
            rows == RowsToValidate(c)
        IN  ( /\ Done(t) /\ ReachesValidation(c) /\ c.skip /\ Len(rows) >= 1
              /\ \A i \in DOMAIN rows :
                    ~(Fields(c.query.model) \subseteq DOMAIN rows[i]) )
            => /\ c.exec.ok
               /\ Len(c.exec.validated) = Len(rows)
               /\ \A i \in DOMAIN rows :
                     c.exec.validated[i]
                        = [f \in Fields(c.query.model) \cap DOMAIN rows[i]
                              |-> rows[i][f]]
               /\ c.result.kind = "raise"
                     => c.result.error \in {NotFoundError, TooManyRowsError}
               /\ c.method \in {"many", "any"}
                     => c.result = Return("list", c.exec.validated)
               /\ (c.method \in {"one", "maybe_one"} /\ Len(rows) = 1)
                     => c.result = Return("record", c.exec.validated)
               /\ (\A k \in DOMAIN hooks :
                      on_error(hooks[k], c.ctx, ValidationError) = ValidationError)
                     => WithFlagFlipped(c) = Raise(ValidationError)

\* `one` with skip_validation on a single row that has no email column
C21_Witness ==
    \E t \in Tasks :
        LET c == call[t]
        IN  /\ c.pc = "returned" /\ c.method = "one" /\ c.skip
            /\ c.query.model = "User"
            /\ c.result.kind = "record"
            /\ DOMAIN c.result.recs[1] = {"id", "name"}
            /\ WithFlagFlipped(c) = Raise(ValidationError)

\* C22: a row that holds every declared field and columns the model does
\* not declare validates, and the record built from it holds the declared
\* fields and no other, with the row's values.
C22_WidthProjection ==
    \A t \in Tasks :
        LET c == call[t]
            rows == RowsToValidate(c)
        IN  ( /\ Done(t) /\ ReachesValidation(c) /\ ~c.skip
              /\ \A i \in DOMAIN rows :
                    /\ Fields(c.query.model) \subseteq DOMAIN rows[i]
                    /\ rows[i]["name"] # NULL )
            => /\ c.exec.ok
               /\ Len(c.exec.validated) = Len(rows)
               /\ \A i \in DOMAIN rows :
                     /\ DOMAIN c.exec.validated[i] = Fields(c.query.model)
                     /\ \A f \in Fields(c.query.model) :
                           c.exec.validated[i][f] = rows[i][f]

\* a record of two fields built from a row of three columns
C22_Witness ==
    \E t \in Tasks :
        LET c == call[t]
        IN  /\ c.pc = "returned" /\ ~c.skip /\ c.method = "many"
            /\ Len(c.exec.after) >= 1
            /\ DOMAIN c.exec.after[1] = {"id", "name", "email"}
            /\ DOMAIN c.result.recs[1] = {"id", "name"}

\* C30: when the statement's execution raises and the chain is empty or
\* every hook's on_error returns the error it was given, the caller gets
\* the engine's error itself: no wrapper around it and none of
\* NotFoundError, TooManyRowsError, ValidationError.
C30_EngineErrorUnwrapped ==
    \A t \in Tasks :
        LET c == call[t]
        IN  ( /\ Done(t) /\ Executed(c) /\ ~c.reply.ok
              /\ \A k \in DOMAIN hooks :
                    on_error(hooks[k], c.ctx, c.reply.error) = c.reply.error )
            => /\ c.result = Raise(c.reply.error)
               /\ c.result.error.cause = ""
               /\ c.result.error
                     \notin {NotFoundError, TooManyRowsError, ValidationError}

\* an engine error raised through two hooks that pass it on
C30_Witness ==
    \E t \in Tasks :
        LET c == call[t]
        IN  /\ c.pc = "raised" /\ Executed(c) /\ ~c.reply.ok
            /\ Len(hooks) = 2 /\ Len(OnErrorEvents(c)) = 2
            /\ c.result.error = EngineError

----------------------------------------------------------------------------
(* Scopes and the errors of the cardinality methods.                       *)

\* C23: when a cardinality method raises ValidationError, NotFoundError or
\* TooManyRowsError in the body of a transaction scope and the body does
\* not catch it, the scope rolls back, a connection acquired afterwards
\* reads none of the rows the scope wrote, and the caller of the scope gets
\* that error.
C23_OwnErrorsRollBack ==
    \A t \in Tasks :
        ( /\ exitInfo[t].kind = "transaction"
          /\ exitInfo[t].body
                \in {ValidationError, NotFoundError, TooManyRowsError} )
        => /\ exitInfo[t].how = "rollback"
           /\ exitInfo[t].raised = exitInfo[t].body
           /\ exitInfo[t].wrote \cap FreshRead = {}

\* a scope that wrote a row whose name is NULL, read it back and got
\* ValidationError
C23_Witness ==
    \E t \in Tasks :
        /\ mode = "nonblocking"
        /\ exitInfo[t].kind = "transaction"
        /\ exitInfo[t].body = ValidationError
        /\ exitInfo[t].wrote # {}
        /\ exitInfo[t].how = "rollback"

\* C29: a scope obtained from connection() never commits: however its body
\* ends, the session is closed and a connection acquired afterwards reads
\* none of the rows the scope wrote.
C29_ConnectionNeverCommits ==
    \A t \in Tasks :
        exitInfo[t].kind = "connection" =>
            /\ exitInfo[t].how = "close"
            /\ exitInfo[t].raised = exitInfo[t].body
            /\ exitInfo[t].wrote \cap FreshRead = {}

\* a connection scope that wrote a row and whose body ended normally
C29_Witness ==
    \E t \in Tasks :
        /\ mode = "nonblocking"
        /\ exitInfo[t].kind = "connection"
        /\ exitInfo[t].body = NoError
        /\ exitInfo[t].wrote # {}
        /\ exitInfo[t].wrote \cap committed = {}

\* C24: on a non-blocking handle, when a task is cancelled while a call in
\* the body of its transaction scope awaits the engine and the cancellation
\* leaves the body, the scope rolls back, a connection acquired afterwards
\* reads none of the rows the scope wrote, and the caller of the scope gets
\* the cancellation.
C24_CancelRollsBack ==
    \A t \in Tasks :
        /\ (call[t].pc = "raised" /\ call[t].exec.orig = CancelledError)
              => /\ call[t].result = Raise(CancelledError)
                 /\ OnErrorEvents(call[t]) = <<>>
        /\ (exitInfo[t].kind = "transaction" /\ exitInfo[t].body = CancelledError)
              => /\ exitInfo[t].how = "rollback"
                 /\ exitInfo[t].raised = CancelledError
                 /\ exitInfo[t].wrote \cap FreshRead = {}

\* a transaction scope that wrote a row and was cancelled at a query
C24_Witness ==
    \E t \in Tasks :
        /\ exitInfo[t].kind = "transaction"
        /\ exitInfo[t].body = CancelledError
        /\ exitInfo[t].wrote # {}
        /\ exitInfo[t].how = "rollback"

\* The hooks that call c invoked, in any of the three stages.
HooksInvoked(c) ==
    {c.exec.log[k].hook : k \in {j \in 1..Len(c.exec.log) :
                                    c.exec.log[j].op # "execute"}}

AsyncOutcome(chain, method, q, skip, ids) ==
    LET b == ExecuteBegin(chain, q, "None", skip)
        reply == ConnExecute(b.ctx.statement, b.ctx.params, ids)
        ex == IF b.raised THEN b.exec
              ELSE ExecuteFinish(chain, q, b.ctx, skip, b.exec.log, reply)
    IN  [exec |-> ex, result |-> Finish(method, ex)]

C28_RawPrimitives ==
    \A t \in Tasks :
        LET c == call[t]
            log == c.exec.log
            n == Len(ConnHooks(t))
            E == OnErrorEvents(c)
        IN  (Done(t) /\ c.method \in RawPrimitives) =>
              /\ AfterEvents(c) = <<>>
              /\ c.exec.validated = <<>>
              /\ c.exec.orig # ValidationError
              /\ Executed(c) =>
                    /\ \A i \in 1..n : log[i].op = "before" /\ log[i].hook = i
                    /\ log[n + 1].op = "execute"
              /\ (Executed(c) /\ ~c.reply.ok) =>
                    /\ c.pc = "raised"
                    /\ Len(E) = n
                    /\ \A k \in 1..n : E[k].hook = k
                    /\ n >= 1 => E[1].err = c.reply.error
              /\ (Executed(c) /\ c.reply.ok) =>
                    (c.pc = "returned" /\ Len(log) = n + 1)

\* an execute_many that wrote two rows under two hooks
C28_Witness ==
    \E t \in Tasks :
        /\ Done(t) /\ call[t].method = "execute_many"
        /\ Len(hooks) = 2 /\ call[t].reply.ok
        /\ {1, 2} \subseteq pending[t]
        /\ Len(call[t].exec.log) = 3

\* The entries i+1..i+n of a record are one whole stage `op` of a chain of
\* n hooks, in registration order.
WholeStage(log, i, n, op) ==
    /\ Len(log) >= i + n
    /\ \A k \in 1..n : log[i + k].op = op /\ log[i + k].hook = k

\* What one step does to the call of task t: nothing, or it takes the call
\* of t alone, with the chain as it is, from its start to the await or from
\* the await to its end.
CallStep(t) ==
    LET c == call[t]
        d == call'[t]
        n == Len(hooks)
        old == c.exec.log
        new == d.exec.log
    IN  d # c =>
          /\ \A u \in Tasks \ {t} : call'[u] = call[u]
          /\ hooks' = hooks
          /\ d.pc = "awaiting" =>
                /\ c.pc = "idle"
                /\ Len(new) = n /\ WholeStage(new, 0, n, "before")
          /\ (c.pc = "idle" /\ d.pc = "raised") =>
                /\ \A k \in 1..Len(new) : new[k].op \in {"before", "on_error"}
                /\ WholeStage(new, Len(new) - n, n, "on_error")
          /\ c.pc = "awaiting" =>
                /\ d.pc \in {"returned", "raised"}
                /\ d.result # NoResult
                /\ Len(new) > Len(old)
                /\ SubSeq(new, 1, Len(old)) = old
                /\ new[Len(old) + 1].op = "execute"
                /\ d.exec.ok =>
                      /\ Len(new) = Len(old) + 1 + n
                      /\ WholeStage(new, Len(old) + 1, n, "after")
                      /\ d.exec.validated =
                            ValidateFrom(d.query.model, d.exec.after, d.skip, 1)
                /\ ~d.exec.ok =>
                      WholeStage(new, Len(new) - n, n, "on_error")

\* C25: on a non-blocking handle with several tasks running queries, a
\* call waits only for the execution of its statement: while it waits its
\* record holds the whole before stage and nothing else, the step that
\* starts a call runs the whole before stage, the step that follows the
\* execution runs the whole after stage, the validation and the
\* cardinality check (or the whole on_error stage), and no step touches
\* the call of a second task.
C25_SuspendsOnlyAtExecute ==
    /\ [](\A t \in Tasks :
            /\ call[t].pc \in {"idle", "awaiting", "returned", "raised"}
            /\ call[t].pc = "awaiting" =>
                  /\ call[t].result = NoResult
                  /\ \A k \in 1..Len(call[t].exec.log) :
                        call[t].exec.log[k].op = "before")
    /\ [][\A t \in Tasks : CallStep(t)]_vars

\* two tasks waiting for their statements at the same time, each after the
\* before stage of two hooks
C25_Witness ==
    /\ Len(hooks) = 2
    /\ \A t \in Tasks :
          /\ call[t].pc = "awaiting"
          /\ Len(call[t].exec.log) = 2

\* The chain's on_error stage hands every error on unchanged.
OnErrorPassesThrough(chain) ==
    \A i \in 1..Len(chain) : chain[i] \in {"Hook", "BeforeFailHook", "AfterFailHook"}

\* C33: the cardinality check is applied to the validated records: when
\* the rows that reach validation are 2 or more and one of them fails it,
\* `one` and `maybe_one` fail with ValidationError inside _execute, never
\* with TooManyRowsError, and what a method returns or raises for its count
\* is decided on the list of validated records.
C33_ValidationFirst ==
    \A t \in Tasks :
        LET c == call[t]
            a == run_after(ConnHooks(t), c.ctx, c.reply.rows)
        IN  (Done(t) /\ c.method \in Methods) =>
              /\ (/\ c.method \in {"one", "maybe_one"}
                  /\ Executed(c) /\ c.reply.ok /\ a.error = NoError
                  /\ Len(a.rows) >= 2
                  /\ ValidationFails(c.query.model, a.rows, c.skip)) =>
                    /\ ~c.exec.ok
                    /\ c.exec.orig = ValidationError
                    /\ c.pc = "raised"
                    /\ c.result.error # TooManyRowsError
                    /\ OnErrorPassesThrough(ConnHooks(t)) =>
                          c.result = Raise(ValidationError)
              /\ c.result.error \in {NotFoundError, TooManyRowsError} =>
                    /\ c.exec.ok
                    /\ Len(c.exec.validated) = Len(c.exec.after)
                    /\ (c.result.error = TooManyRowsError) <=>
                          Len(c.exec.validated) >= 2

\* `one` on two rows or more of which one is invalid, under a chain that
\* passes rows and errors on: ValidationError
C33_Witness ==
    \E t \in Tasks :
        /\ Done(t) /\ call[t].method = "one" /\ Len(hooks) >= 1
        /\ Len(call[t].exec.after) >= 2
        /\ \E i \in 1..Len(call[t].exec.after) :
              ModelValid(call[t].query.model, call[t].exec.after[i])
        /\ call[t].result = Raise(ValidationError)

\* C36: when the execution of the statement fails, on_error of every hook
\* of the chain is called exactly once, in the chain's order, and
\* after_execute of no hook is called; when the call returns, on_error of
\* no hook was called.
C36_OnErrorOnce ==
    \A t \in Tasks :
        LET c == call[t]
            E == OnErrorEvents(c)
            n == Len(ConnHooks(t))
        IN  (Done(t) /\ c.method \in Methods) =>
              /\ (Executed(c) /\ ~c.reply.ok) =>
                    /\ \A i \in 1..n :
                          Cardinality({k \in 1..Len(E) : E[k].hook = i}) = 1
                    /\ Len(E) = n
                    /\ AfterEvents(c) = <<>>
                    /\ c.pc = "raised"
              /\ c.pc = "returned" => E = <<>>

\* a query on a table that does not exist, under two hooks
C36_Witness ==
    \E t \in Tasks :
        /\ Done(t) /\ Len(hooks) = 2
        /\ Executed(call[t]) /\ ~call[t].reply.ok
        /\ Len(OnErrorEvents(call[t])) = 2

\* The position of the first hook of the chain whose before_execute
\* raises, 0 when none does.
FirstBeforeRaising(chain) ==
    IF \E i \in 1..Len(chain) : BeforeRaises(chain[i])
    THEN CHOOSE i \in 1..Len(chain) :
            /\ BeforeRaises(chain[i])
            /\ \A j \in 1..(i - 1) : ~BeforeRaises(chain[j])
    ELSE 0

IsBefore(e) == e.op = "before"
BeforeEvents(c) == SelectSeq(c.exec.log, IsBefore)

\* C37: when before_execute of a hook raises, the statement is not
\* executed, before_execute of the hooks after it and after_execute of
\* every hook are not called, the error is passed to on_error of every
\* hook and the call raises what the last of them returned.
C37_BeforeRaises ==
    \A t \in Tasks :
        LET c == call[t]
            chain == ConnHooks(t)
            f == FirstBeforeRaising(chain)
            E == OnErrorEvents(c)
        IN  (Done(t) /\ c.method \in Methods /\ f > 0) =>
              /\ ~Executed(c)
              /\ c.reply = NoReply
              /\ Len(BeforeEvents(c)) = f
              /\ \A k \in 1..f : BeforeEvents(c)[k].hook = k
              /\ AfterEvents(c) = <<>>
              /\ Len(E) = Len(chain)
              /\ E[1].err = HookError
              /\ c.exec.orig = HookError
              /\ c.pc = "raised"
              /\ c.result.error =
                    (IF IsException(E[Len(E)].errOut) THEN E[Len(E)].errOut
                     ELSE TypeError)

\* a chain of two hooks whose first raises in before_execute
C37_Witness ==
    \E t \in Tasks :
        /\ Done(t) /\ Len(hooks) = 2 /\ BeforeRaises(hooks[1])
        /\ Len(BeforeEvents(call[t])) = 1
        /\ Len(OnErrorEvents(call[t])) = 2
        /\ call[t].pc = "raised"

\* What one step does to the committed rows: nothing, or it is the exit
\* of one transaction scope whose body ended without raising, and it adds
\* all the rows that scope wrote.
CommitStep ==
    committed' # committed =>
        \E t \in Tasks :
            /\ scopeKind[t] = "transaction" /\ scopeKind'[t] = "none"
            /\ exitInfo'[t].how = "commit" /\ exitInfo'[t].body = NoError
            /\ committed' = committed \cup pending[t]

\* C38: a transaction scope ends either committed or rolled back: while it
\* is open none of its writes is committed, the committed rows change only
\* in the step that leaves a scope, and once it is left a connection
\* acquired afterwards reads all the rows it wrote (body ended normally:
\* commit) or none of them (an exception left the body: rollback).
C38_TransactionAtomic ==
    /\ [](\A t \in Tasks :
            /\ scopeKind[t] = "transaction" =>
                  (pending[t] \cap committed = {} /\ exitInfo[t] = NoExit)
            /\ exitInfo[t].kind = "transaction" =>
                  /\ exitInfo[t].how \in {"commit", "rollback"}
                  /\ (exitInfo[t].how = "commit") <=> (exitInfo[t].body = NoError)
                  /\ exitInfo[t].how = "commit" =>
                        exitInfo[t].wrote \subseteq FreshRead
                  /\ exitInfo[t].how = "rollback" =>
                        exitInfo[t].wrote \cap FreshRead = {})
    /\ [][CommitStep]_vars

\* a transaction scope of the non-blocking handle that wrote two rows and
\* was left by an exception
C38_Witness ==
    \E t \in Tasks :
        /\ mode = "nonblocking"
        /\ exitInfo[t].kind = "transaction" /\ exitInfo[t].how = "rollback"
        /\ Cardinality(exitInfo[t].wrote) >= 2
        /\ exitInfo[t].wrote \cap committed = {}

\* The context a call starts from, and the context its before stage
\* leaves.
FreshContext(c) ==
    QueryContext(c.query.statement, c.query.model, c.params, c.skip)
ContextAfterBefore(chain, c) == run_before(chain, FreshContext(c)).ctx

\* The call of task t went through its whole before stage.
PastBefore(t) ==
    /\ call[t].pc # "idle" /\ call[t].method \in Methods
    /\ FirstBeforeRaising(ConnHooks(t)) = 0

\* C34: the engine is given the statement and the params the context holds
\* when the last before hook has returned: each before hook works on the
\* context the hook before it left, so what the last hook that sets a field
\* wrote is what is executed, and the rows of the reply are the rows of
\* that statement with those params.
C34_RewrittenContextExecuted ==
    \A t \in Tasks :
        LET c == call[t]
            chain == ConnHooks(t)
            n == Len(chain)
            x == ContextAfterBefore(chain, c)
        IN  PastBefore(t) =>
              /\ c.ctx.statement = x.statement
              /\ c.ctx.params = x.params
              /\ (n >= 1 /\ chain[n] = "BindHook") =>
                    (c.ctx.statement.where = "bind" /\ c.ctx.params = "uid2")
              /\ (n >= 1 /\ chain[n] = "WhereHook") => c.ctx.statement.where = "id1"
              /\ (n >= 1 /\ chain[n] = "ParamsHook") => c.ctx.params = "uid1"
              /\ (\A i \in 1..n : chain[i] \notin RewriteKinds) =>
                    /\ c.ctx.statement = c.query.statement
                    /\ c.ctx.params = c.params
              /\ Executed(c) =>
                    c.reply = ConnExecute(x.statement, x.params, Visible(t))

\* a query for all users called with {"uid": 2}, under BindHook then
\* ParamsHook: the bound statement is executed with {"uid": 1} and yields
\* row 1 alone
C34_Witness ==
    \E t \in Tasks :
        /\ Done(t) /\ hooks = <<"BindHook", "ParamsHook">>
        /\ call[t].query = query("User", SelUsers) /\ call[t].params = "uid2"
        /\ {1, 2} \subseteq committed
        /\ call[t].ctx.statement = SelBind /\ call[t].ctx.params = "uid1"
        /\ Len(call[t].reply.rows) = 1 /\ call[t].reply.rows[1]["id"] = 1
        /\ call[t].result.kind = "record"

\* C35: executing a TypedQuery leaves it as it was constructed: whatever
\* the before hooks write into the context, the query of a call keeps its
\* model and its statement from the start of the call to its end, every
\* call starts from the context built from the query and the caller's
\* params, and the rows are validated against the query's model, not the
\* model name of the context.
C35_TypedQueryUnchanged ==
    /\ [](\A t \in Tasks :
            LET c == call[t]
            IN  (c.pc # "idle" /\ c.method \in Methods) =>
                  /\ c.query \in RewriteQueries \cup Queries
                  /\ c.query = TypedQueryAfter(c.query, c.ctx)
                  /\ PastBefore(t) => c.ctx = ContextAfterBefore(ConnHooks(t), c)
                  /\ (Done(t) /\ c.exec.ok) =>
                        /\ c.exec.validated =
                              ValidateFrom(c.query.model, c.exec.after, c.skip, 1)
                        /\ \A i \in 1..Len(c.exec.validated) :
                              DOMAIN c.exec.validated[i] = Fields(c.query.model))
    /\ [][\A t \in Tasks :
            (call[t].pc # "idle" /\ call'[t].pc # "idle") =>
                /\ call'[t].query = call[t].query
                /\ call'[t].params = call[t].params]_vars

\* a UserSummary query finished under a hook that narrowed the statement
\* and a hook that renamed the model in the context
C35_Witness ==
    \E t \in Tasks :
        /\ Done(t) /\ hooks = <<"WhereHook", "ModelNameHook">>
        /\ call[t].query = query("UserSummary", SelIdName)
        /\ call[t].ctx.model_name = "Renamed"
        /\ call[t].ctx.statement # call[t].query.statement
        /\ call[t].result.kind = "record"
        /\ DOMAIN call[t].result.recs[1] = Fields("UserSummary")

\* The command line has run `pyreact db <cmd>` to its end.
CliDone(cmd) == cli.cmd = cmd /\ cli.pc = "done"

\* C31: `pyreact db plan` writes nothing: the live inventory when it ends
\* is the one it started from and apply was not called; and a second plan
\* right after the first, the schema declared and the live database being
\* the same, lists the same changes.
C31_PlanDryRun ==
    /\ [](CliDone("plan") =>
            /\ live = cli.before
            /\ ~cli.called /\ cli.applied = <<>>
            /\ cli.displayed = Display(cli.changes))
    /\ [][(cli'.cmd = "plan" /\ cli' # cli) =>
            /\ live' = live
            /\ CliDone("plan") =>
                  (cli'.changes = cli.changes /\ cli'.displayed = cli.displayed)]_vars

\* a plan that listed two changes and left the live database without them
C31_Witness ==
    /\ CliDone("plan")
    /\ Len(cli.changes) >= 2
    /\ live = cli.before
    /\ ~InSync(live, declared)

\* C32: a change is printed as "<change_type>: <table>.<detail>" when it
\* has a detail and as "<change_type>: <table>", with no dot after the
\* table, when it has none: "add_column: users.email", "create_table:
\* users".  So is every line the command line lists.
C32_ToString ==
    /\ to_string(SchemaChange(ADD_COLUMN, "users", "email")) =
            "add_column: users.email"
    /\ to_string(SchemaChange(CREATE_TABLE, "users", NoDetail)) =
            "create_table: users"
    /\ Len(cli.displayed) = Len(cli.changes)
    /\ \A i \in 1..Len(cli.changes) :
          LET ch == cli.changes[i]
              s == cli.displayed[i]
          IN  /\ ch.change_type = CREATE_TABLE =>
                    /\ ch.detail = NoDetail
                    /\ s \in {"create_table: users", "create_table: posts"}
                    /\ Len(s) = Len("create_table: ") + Len(ch.table_name)
              /\ ch.change_type = ADD_COLUMN =>
                    /\ ch.detail \in Columns
                    /\ s = "add_column: " \o ch.table_name \o "." \o ch.detail
                    /\ Len(s) = Len("add_column: ") + Len(ch.table_name) + 1
                                    + Len(ch.detail)

\* a listing with a change without detail and a change with one
C32_Witness ==
    /\ cli.pc = "done"
    /\ \E i, j \in 1..Len(cli.displayed) :
          /\ cli.displayed[i] = "create_table: posts"
          /\ cli.displayed[j] = "add_column: users.name"

\* The answers that confirm: y or yes, in either case, spaces around them
\* ignored.
YesAnswers == {Typed("y"), Typed("yes"), Typed("Y"), Typed(" Yes ")}

\* C39: `pyreact db apply` changes the database only when the plan is not
\* empty and the user confirmed or --yes / -y was given: with an empty
\* plan, an answer other than y / yes or an interrupted prompt, apply is
\* not called and the command leaves the live inventory as it is; with
\* --yes or -y and a plan that is not empty, apply is called and the user
\* is not asked.
C39_ApplyNeedsConfirmation ==
    /\ [](/\ cli.called => (cli.changes # <<>> /\
                            (cli.force \/ cli.response \in YesAnswers))
          /\ cli.prompted => (~cli.force /\ cli.changes # <<>>)
          /\ CliDone("apply") =>
                /\ cli.changes = <<>> => (~cli.called /\ ~cli.prompted)
                /\ (cli.prompted /\ cli.response \notin YesAnswers) => ~cli.called
                /\ (cli.force /\ cli.changes # <<>>) =>
                      (cli.called /\ ~cli.prompted)
                /\ ~cli.called =>
                      /\ cli.applied = <<>>
                      /\ ~cli.altered => live = cli.before)
    /\ [][(cli.cmd = "apply" /\ live' # live) =>
            \/ ~cli.altered /\ cli'.altered
            \/ cli.pc = "apply" /\ cli'.called]_vars

\* a plan with changes, the answer "n": nothing applied
C39_Witness ==
    /\ CliDone("apply")
    /\ cli.changes # <<>> /\ cli.prompted /\ cli.response = Typed("n")
    /\ ~cli.called /\ live = cli.before
    /\ ~InSync(live, declared)

\* C40 as stated: when `pyreact db apply` has called apply and apply has
\* returned, the changes applied are those that were listed for the user,
\* whatever another process did to the live database in between.
C40_AppliedIsDisplayed ==
    (CliDone("apply") /\ cli.called /\ cli.error = NoError) =>
        /\ cli.applied = cli.changes
        /\ Display(cli.applied) = cli.displayed

====
